---- MODULE Spec2Model ----
(***************************************************************************)
(* A model of citylearn.building: Building and LSTMDynamicsBuilding.       *)
(*                                                                         *)
(* Quantities are integers: energies in kWh, temperatures in degrees C,    *)
(* action fractions in units of 1/ActionDen, ratios of efficiencies in     *)
(* units of 1/EffDen.  A Python list or numpy array indexed from 0 is a    *)
(* sequence indexed from 1, so x[t] of the source is At(x, t).             *)
(***************************************************************************)
EXTENDS Integers, Sequences, FiniteSets, TLC

VARIABLES
    bld,       \* the building of the single-building specification
    last,      \* what the last operation on bld was, and what it passed on
    heap,      \* two-building specification: object id -> object
    refs,      \* two-building specification: building -> attribute -> object id
    priv,      \* two-building specification: building -> its private attributes
    solo,      \* two-building specification: building -> the building run alone
    acted      \* two-building specification: the building that acted last

vars == <<bld, last, heap, refs, priv, solo, acted>>

----------------------------------------------------------------------------
(* Bounds of the model. *)

\* number of samples of every time series (the episode's horizon)
Horizon == 3

\* number of apply_actions calls of a run, over all its episodes
MaxSteps == 4

----------------------------------------------------------------------------
(* Units. *)

\* an action a stands for the fraction a / ActionDen
ActionDen == 2

\* an efficiency e stands for the ratio e / EffDen
EffDen == 10

\* PV.get_generation divides the inverter output in W/kW by this
WattPerKilowatt == 1000

\* offset between degrees Celsius and Kelvin, rounded
Kelvin == 273

\* the value HeatPump.get_cop substitutes for a negative or too large COP
CopMax == 20

\* estimate_observation_space: temperature_band
temperature_band == 20

\* estimate_observation_space: capacity/0.8, as capacity*EffDen/RoundTripFloor
RoundTripFloor == 8

\* Building.__init__: self.__observation_epsilon = 0.0
observation_epsilon == 0

----------------------------------------------------------------------------
(* Arithmetic of the source. *)

\* Python's max(a, b) and min(a, b) on numbers
Max(a, b) == IF b > a THEN b ELSE a

Min(a, b) == IF b < a THEN b ELSE a

\* a / b of two floats, rounded towards zero
Div(a, b) == IF a >= 0 THEN a \div b ELSE -((-a) \div b)

Abs(a) == IF a < 0 THEN -a ELSE a

\* x[t] of a list indexed from 0
At(x, t) == x[t + 1]

\* x[-1] of a list
Last(x) == x[Len(x)]

RECURSIVE SeqMax(_)
SeqMax(x) == IF Len(x) = 1 THEN x[1] ELSE Max(x[1], SeqMax(Tail(x)))

RECURSIVE SeqMin(_)
SeqMin(x) == IF Len(x) = 1 THEN x[1] ELSE Min(x[1], SeqMin(Tail(x)))

\* the repetition of a pattern over the horizon
Cyc(pattern) == [i \in 1..Horizon |-> pattern[((i - 1) % Len(pattern)) + 1]]

----------------------------------------------------------------------------
(* The conversion devices: HeatPump and ElectricHeater (citylearn.energy_model). *)

HeatPump(nominal_power, efficiency) ==
    [kind |-> "HeatPump", nominal_power |-> nominal_power, efficiency |-> efficiency,
     target_heating_temperature |-> 45, target_cooling_temperature |-> 8,
     electricity_consumption |-> <<>>]

ElectricHeater(nominal_power, efficiency) ==
    [kind |-> "ElectricHeater", nominal_power |-> nominal_power, efficiency |-> efficiency,
     target_heating_temperature |-> 0, target_cooling_temperature |-> 0,
     electricity_consumption |-> <<>>]

\* isinstance(device, HeatPump)
IsHeatPump(device) == device.kind = "HeatPump"

\* HeatPump.get_cop(outdoor_dry_bulb_temperature, heating): the Carnot ratio of the
\* target temperature over the temperature lift, times the technical efficiency;
\* a negative or too large value is replaced by CopMax
get_cop(device, temperature, heating) ==
    LET target == IF heating THEN device.target_heating_temperature
                  ELSE device.target_cooling_temperature
        lift == IF heating THEN target - temperature ELSE temperature - target
        cop == IF lift = 0 THEN CopMax + 1
               ELSE Div(device.efficiency * (target + Kelvin), EffDen * lift)
    IN  IF cop < 0 \/ cop > CopMax THEN CopMax ELSE cop

\* a fault: a heater is given the largest COP of a heat pump
HeaterEfficiencyAsCop(device) == CopMax

\* ElectricHeater.efficiency as the ratio the observation reports
HeaterEfficiency(device) == device.efficiency

\* get_max_output_power(outdoor_dry_bulb_temperature, heating) of a heat pump
HeatPumpMaxOutputPower(device, temperature, heating) ==
    device.nominal_power * get_cop(device, temperature, heating)

\* get_max_output_power(outdoor_dry_bulb_temperature, heating, max_electric_power)
HeatPumpMaxOutputPowerAt(device, temperature, heating, max_electric_power) ==
    Min(max_electric_power, device.nominal_power) * get_cop(device, temperature, heating)

\* ElectricHeater.get_max_output_power()
HeaterMaxOutputPower(device) == Div(device.nominal_power * device.efficiency, EffDen)

\* HeatPump.get_input_power(output_power, outdoor_dry_bulb_temperature, heating)
HeatPumpInputPower(device, output_power, temperature, heating) ==
    LET cop == get_cop(device, temperature, heating)
    IN  IF cop = 0 THEN 0 ELSE Div(output_power, cop)

\* ElectricHeater.get_input_power(output_power)
HeaterInputPower(device, output_power) == Div(output_power * EffDen, device.efficiency)

\* ElectricDevice.update_electricity_consumption(electricity_consumption)
update_electricity_consumption(device, power) ==
    [device EXCEPT !.electricity_consumption =
        [@ EXCEPT ![Len(@)] = @ + power]]

\* ElectricDevice.next_time_step()
DeviceNextTimeStep(device) ==
    [device EXCEPT !.electricity_consumption = Append(@, 0)]

\* ElectricDevice.reset()
DeviceReset(device) == [device EXCEPT !.electricity_consumption = <<0>>]

\* PV(nominal_power)
PV(nominal_power) == [nominal_power |-> nominal_power]

\* PV.get_generation(inverter_ac_power_per_kw) of one sample
get_generation(pv, inverter_ac_power_per_kw) ==
    Div(pv.nominal_power * inverter_ac_power_per_kw, WattPerKilowatt)

----------------------------------------------------------------------------
(* The storages: StorageTank and Battery (citylearn.energy_model). *)

StorageTank(capacity) ==
    [capacity |-> capacity, soc |-> <<>>, energy_balance |-> <<>>,
     electricity_consumption |-> <<>>, capacity_history |-> <<capacity>>]

Battery(capacity, nominal_power) ==
    [capacity |-> capacity, soc |-> <<>>, energy_balance |-> <<>>,
     electricity_consumption |-> <<>>, capacity_history |-> <<capacity>>]

\* StorageDevice.charge(energy): the state of charge stays within [0, capacity];
\* the energy balance is the change of the state of charge
charge(storage, energy) ==
    LET soc_init == Last(storage.soc)
        soc == IF energy >= 0 THEN Min(soc_init + energy, storage.capacity)
               ELSE Max(0, soc_init + energy)
    IN  [storage EXCEPT !.soc = Append(@, soc),
                        !.energy_balance = Append(@, soc - soc_init),
                        !.electricity_consumption = Append(@, soc - soc_init)]

\* StorageDevice.reset()
StorageReset(storage) ==
    [storage EXCEPT !.soc = <<0>>, !.energy_balance = <<0>>,
                    !.electricity_consumption = <<0>>]

\* StorageDevice.next_time_step(): the series grow in charge(), not here
StorageNextTimeStep(storage) == storage

----------------------------------------------------------------------------
(* The data of a building (citylearn.data) and the buildings the model runs. *)

\* an optional argument: None, or a value
None == <<>>

Some(v) == <<v>>

\* the schedules of one building, by profile: 1 an idle building, 2 a building
\* with loads, 3 a building whose PV generation exceeds its loads
EnergySimulation(profile) ==
    [non_shiftable_load |-> Cyc(<< <<3>>, <<3, 1>>, <<1>> >>[profile]),
     dhw_demand |-> Cyc(<< <<0>>, <<2, 0, 4>>, <<0, 2>> >>[profile]),
     cooling_demand |-> Cyc(<< <<0>>, <<4, 0, 6>>, <<2, 0>> >>[profile]),
     heating_demand |-> Cyc(<< <<0>>, <<0, 2>>, <<0>> >>[profile]),
     solar_generation |-> Cyc(<< <<0>>, <<0, 500>>, <<500, 1000, 0>> >>[profile]),
     indoor_dry_bulb_temperature |-> Cyc(<< <<24>>, <<26, 22, 24>>, <<23, 25>> >>[profile]),
     cooling_dry_bulb_temperature_set_point |-> Cyc(<<24>>),
     heating_dry_bulb_temperature_set_point |-> Cyc(<<20>>),
     occupant_count |-> Cyc(<< <<0>>, <<1, 2>>, <<1>> >>[profile]),
     hour |-> [i \in 1..Horizon |-> ((i - 1) % 24) + 1],
     cooling_device_demand_schedule |-> << 0, 1, 1 >>[profile],
     heating_device_demand_schedule |-> << 0, 1, 0 >>[profile]]

Weather(profile) ==
    [outdoor_dry_bulb_temperature |-> Cyc(<< <<25>>, <<35, 5, 25>>, <<25, 35>> >>[profile]),
     direct_solar_irradiance |-> Cyc(<< <<0>>, <<0, 300>>, <<600, 300>> >>[profile])]

CarbonIntensity(profile) ==
    [carbon_intensity |-> Cyc(<< <<1>>, <<2, 1>>, <<2>> >>[profile])]

Pricing(profile) ==
    [electricity_pricing |-> Cyc(<< <<2>>, <<1, 3>>, <<1>> >>[profile])]

\* LSTMDynamics: the sequence model with its carried hidden state
HiddenInit == 0

LSTMDynamics == [lookback |-> 2, hidden_list |-> HiddenInit]

\* the buildings of the model: the variant, the kind of the heating device, whether
\* the caller supplies storages, devices and PV or leaves the defaults, the data
Configs ==
    { cfg \in [variant : {"base", "lstm"}, heating : {"HeatPump", "ElectricHeater"},
                supplied : BOOLEAN, profile : 1..3] :
        cfg.supplied \/ cfg.heating = "HeatPump" }

\* the names of observation_metadata and action_metadata with a True value
ObservationNames ==
    << "net_electricity_consumption", "cooling_storage_soc", "heating_storage_soc",
       "dhw_storage_soc", "electrical_storage_soc", "cooling_device_cop",
       "heating_device_cop", "indoor_dry_bulb_temperature",
       "cooling_dry_bulb_temperature_delta", "heating_dry_bulb_temperature_delta",
       "cooling_demand", "heating_demand", "outdoor_dry_bulb_temperature",
       "direct_solar_irradiance", "occupant_count", "non_shiftable_load",
       "solar_generation", "carbon_intensity", "electricity_pricing" >>

ActionNames ==
    << "cooling_device", "heating_device", "cooling_storage", "heating_storage",
       "dhw_storage", "electrical_storage" >>

----------------------------------------------------------------------------
(* Building: the sub-object setters. *)

\* dhw_storage.setter, cooling_storage.setter, heating_storage.setter
StorageOrDefault(storage) == IF storage = None THEN StorageTank(0) ELSE storage[1]

\* electrical_storage.setter
BatteryOrDefault(storage) == IF storage = None THEN Battery(0, 0) ELSE storage[1]

\* dhw_device.setter: ElectricHeater(0.0), with the heater's default efficiency
DhwDeviceOrDefault(device) == IF device = None THEN ElectricHeater(0, 9) ELSE device[1]

\* cooling_device.setter, heating_device.setter: HeatPump(0.0), with the heat
\* pump's default efficiency
HeatPumpOrDefault(device) == IF device = None THEN HeatPump(0, 2) ELSE device[1]

\* pv.setter
PvOrDefault(pv) == IF pv = None THEN PV(0) ELSE pv[1]

----------------------------------------------------------------------------
(* Building: the energy balance engine. *)

\* the outdoor temperature at the building's time step
OutdoorTemperature(b) == At(b.weather.outdoor_dry_bulb_temperature, b.time_step)

\* a fault: the non-shiftable load is left out of the sum
NetElectricityConsumptionWithoutLoad(cooling, heating, dhw, electrical, load, solar) ==
    cooling + heating + dhw + electrical + solar

\* update_variables: the net electricity consumption of the current time step
NetElectricityConsumption(cooling, heating, dhw, electrical, load, solar) ==
    cooling + heating + dhw + electrical + load + solar

\* a fault: the emission is the signed product
EmissionUnclipped(net_electricity_consumption, carbon_intensity) ==
    net_electricity_consumption * carbon_intensity

\* update_variables: the emission of the current time step
Emission(net_electricity_consumption, carbon_intensity) ==
    Max(0, net_electricity_consumption * carbon_intensity)

\* update_variables: the six ledgers each get one entry for the current time step
update_variables(b) ==
    LET t == b.time_step
        cooling_demand == At(b.energy_simulation.cooling_demand, t)
                              + At(b.cooling_storage.energy_balance, t)
        cooling_consumption ==
            HeatPumpInputPower(b.cooling_device, cooling_demand, OutdoorTemperature(b), FALSE)
        heating_demand == At(b.energy_simulation.heating_demand, t)
                              + At(b.heating_storage.energy_balance, t)
        heating_consumption ==
            IF IsHeatPump(b.heating_device)
            THEN HeatPumpInputPower(b.heating_device, heating_demand, OutdoorTemperature(b), TRUE)
            ELSE HeaterInputPower(b.dhw_device, heating_demand)
        dhw_demand == At(b.energy_simulation.dhw_demand, t)
                          + At(b.dhw_storage.energy_balance, t)
        dhw_consumption ==
            IF IsHeatPump(b.dhw_device)
            THEN HeatPumpInputPower(b.dhw_device, dhw_demand, OutdoorTemperature(b), TRUE)
            ELSE HeaterInputPower(b.dhw_device, dhw_demand)
        net_electricity_consumption ==
            NetElectricityConsumption(cooling_consumption, heating_consumption,
                dhw_consumption, At(b.electrical_storage.electricity_consumption, t),
                At(b.energy_simulation.non_shiftable_load, t), At(b.solar_generation, t))
    IN  [b EXCEPT
            !.cooling_electricity_consumption = Append(@, cooling_consumption),
            !.heating_electricity_consumption = Append(@, heating_consumption),
            !.dhw_electricity_consumption = Append(@, dhw_consumption),
            !.net_electricity_consumption = Append(@, net_electricity_consumption),
            !.net_electricity_consumption_price =
                Append(@, net_electricity_consumption
                              * At(b.pricing.electricity_pricing, t)),
            !.net_electricity_consumption_emission =
                Append(@, Emission(net_electricity_consumption,
                                   At(b.carbon_intensity.carbon_intensity, t)))]

\* the demand a storage update reads at the current time step
SpaceDemand(b, end_use) ==
    CASE end_use = "cooling" -> At(b.energy_simulation.cooling_demand, b.time_step)
      [] end_use = "heating" -> At(b.energy_simulation.heating_demand, b.time_step)
      [] end_use = "dhw" -> At(b.energy_simulation.dhw_demand, b.time_step)

\* the max_output a storage update reads from the end use's device
MaxOutput(b, end_use) ==
    CASE end_use = "cooling" ->
            HeatPumpMaxOutputPower(b.cooling_device, OutdoorTemperature(b), FALSE)
      [] end_use = "heating" ->
            IF IsHeatPump(b.heating_device)
            THEN HeatPumpMaxOutputPower(b.heating_device, OutdoorTemperature(b), TRUE)
            ELSE HeaterMaxOutputPower(b.heating_device)
      [] end_use = "dhw" ->
            IF IsHeatPump(b.dhw_device)
            THEN HeatPumpMaxOutputPower(b.dhw_device, OutdoorTemperature(b), TRUE)
            ELSE HeaterMaxOutputPower(b.dhw_device)

\* a fault: the energy is not limited by the device's maximum output
ClampEnergyNoUpper(energy, space_demand, max_output) == Max(-space_demand, energy)

\* a fault: the energy is not limited by the space demand
ClampEnergyNoLower(energy, space_demand, max_output) ==
    Min(max_output - space_demand, energy)

\* a fault: a request of no energy is passed on as it is
ClampEnergyZeroKept(energy, space_demand, max_output) ==
    IF energy = 0 THEN 0 ELSE Max(-space_demand, Min(max_output - space_demand, energy))

\* energy = max(-space_demand, min(max_output - space_demand, energy))
ClampEnergy(energy, space_demand, max_output) ==
    Max(-space_demand, Min(max_output - space_demand, energy))

\* the energy update_cooling_storage passes to cooling_storage.charge
CoolingStorageEnergy(b, action) ==
    ClampEnergy(Div(action * b.cooling_storage.capacity, ActionDen),
                SpaceDemand(b, "cooling"), MaxOutput(b, "cooling"))

\* the energy update_heating_storage passes to heating_storage.charge
HeatingStorageEnergy(b, action) ==
    ClampEnergy(Div(action * b.heating_storage.capacity, ActionDen),
                SpaceDemand(b, "heating"), MaxOutput(b, "heating"))

\* the energy update_dhw_storage passes to dhw_storage.charge
DhwStorageEnergy(b, action) ==
    ClampEnergy(Div(action * b.dhw_storage.capacity, ActionDen),
                SpaceDemand(b, "dhw"), MaxOutput(b, "dhw"))

update_cooling_storage(b, action) ==
    LET energy == CoolingStorageEnergy(b, action)
        input_power == HeatPumpInputPower(b.cooling_device,
                           SpaceDemand(b, "cooling") + energy, OutdoorTemperature(b), FALSE)
    IN  [b EXCEPT !.cooling_storage = charge(@, energy),
                  !.cooling_device = update_electricity_consumption(@, input_power)]

update_heating_storage(b, action) ==
    LET energy == HeatingStorageEnergy(b, action)
        demand == SpaceDemand(b, "heating") + energy
        input_power ==
            IF IsHeatPump(b.heating_device)
            THEN HeatPumpInputPower(b.heating_device, demand, OutdoorTemperature(b), TRUE)
            ELSE HeaterInputPower(b.heating_device, demand)
    IN  [b EXCEPT !.heating_storage = charge(@, energy),
                  !.heating_device = update_electricity_consumption(@, input_power)]

update_dhw_storage(b, action) ==
    LET energy == DhwStorageEnergy(b, action)
        demand == SpaceDemand(b, "dhw") + energy
        input_power ==
            IF IsHeatPump(b.dhw_device)
            THEN HeatPumpInputPower(b.dhw_device, demand, OutdoorTemperature(b), TRUE)
            ELSE HeaterInputPower(b.dhw_device, demand)
    IN  [b EXCEPT !.dhw_storage = charge(@, energy),
                  !.dhw_device = update_electricity_consumption(@, input_power)]

update_electrical_storage(b, action) ==
    [b EXCEPT !.electrical_storage =
        charge(@, Div(action * b.electrical_storage.capacity, ActionDen))]

----------------------------------------------------------------------------
(* Building: the space bound estimator. *)

\* a state of charge s stands for the fraction s / SocDen
SocDen == 100

\* the data dict of estimate_observation_space: the later entries of the literal
\* replace the earlier ones, so 'solar_generation' is energy_simulation's series
EstimateData(b, key) ==
    CASE key = "solar_generation" -> b.energy_simulation.solar_generation
      [] key = "outdoor_dry_bulb_temperature" -> b.weather.outdoor_dry_bulb_temperature
      [] key = "direct_solar_irradiance" -> b.weather.direct_solar_irradiance
      [] key = "occupant_count" -> b.energy_simulation.occupant_count
      [] key = "non_shiftable_load" -> b.energy_simulation.non_shiftable_load
      [] key = "carbon_intensity" -> b.carbon_intensity.carbon_intensity
      [] key = "electricity_pricing" -> b.pricing.electricity_pricing
      [] key = "hour" -> b.energy_simulation.hour

\* the series whose largest magnitude bounds net_electricity_consumption
NetElectricConsumptionEstimate(b) ==
    [i \in 1..Horizon |->
        b.energy_simulation.non_shiftable_load[i]
            + b.energy_simulation.dhw_demand[i]
            + b.energy_simulation.cooling_demand[i]
            + b.energy_simulation.heating_demand[i]
            + Div(b.dhw_storage.capacity * EffDen, RoundTripFloor)
            + Div(b.cooling_storage.capacity * EffDen, RoundTripFloor)
            + Div(b.heating_storage.capacity * EffDen, RoundTripFloor)
            + Div(b.electrical_storage.capacity * EffDen, RoundTripFloor)
            - EstimateData(b, "solar_generation")[i]]

\* the COP of a heat pump over the horizon's outdoor temperatures
CopSeries(device, b, heating) ==
    [i \in 1..Horizon |-> get_cop(device, b.weather.outdoor_dry_bulb_temperature[i], heating)]

\* the bound <<low, high>> estimate_observation_space gives one observation name,
\* before the epsilon
ObservationLimit(b, key) ==
    CASE key = "net_electricity_consumption" ->
            LET m == SeqMax([i \in 1..Horizon |-> Abs(NetElectricConsumptionEstimate(b)[i])])
            IN  <<-m, m>>
      [] key \in {"cooling_storage_soc", "heating_storage_soc", "dhw_storage_soc",
                  "electrical_storage_soc"} -> <<0, SocDen>>
      [] key = "cooling_device_cop" ->
            <<SeqMin(CopSeries(b.cooling_device, b, FALSE)),
              SeqMax(CopSeries(b.cooling_device, b, FALSE))>>
      [] key = "heating_device_cop" ->
            IF IsHeatPump(b.heating_device)
            THEN <<SeqMin(CopSeries(b.heating_device, b, TRUE)),
                   SeqMax(CopSeries(b.heating_device, b, TRUE))>>
            ELSE <<HeaterEfficiency(b.heating_device), HeaterEfficiency(b.heating_device)>>
      [] key = "indoor_dry_bulb_temperature" ->
            <<SeqMin(b.energy_simulation.indoor_dry_bulb_temperature) - temperature_band,
              SeqMax(b.energy_simulation.indoor_dry_bulb_temperature) + temperature_band>>
      [] key \in {"cooling_dry_bulb_temperature_delta",
                  "heating_dry_bulb_temperature_delta"} -> <<0, temperature_band>>
      [] key = "cooling_demand" ->
            <<0, Div(SeqMax(b.energy_simulation.cooling_demand) * 25, 10)>>
      [] key = "heating_demand" ->
            <<0, Div(SeqMax(b.energy_simulation.heating_demand) * 25, 10)>>
      [] OTHER -> <<SeqMin(EstimateData(b, key)), SeqMax(EstimateData(b, key))>>

\* estimate_observation_space: low and high, one entry per active observation
estimate_observation_space(b) ==
    [low |-> [i \in 1..Len(b.active_observations) |->
                 ObservationLimit(b, b.active_observations[i])[1] - observation_epsilon],
     high |-> [i \in 1..Len(b.active_observations) |->
                 ObservationLimit(b, b.active_observations[i])[2] + observation_epsilon]]

(* estimate_action_space divides numpy floats: a float is a ratio n/d with d > 0, *)
(* or one of inf, -inf and nan.                                                   *)

Num(n, d) == [kind |-> "num", n |-> n, d |-> d]

PosInf == [kind |-> "inf", n |-> 1, d |-> 0]

NegInf == [kind |-> "-inf", n |-> -1, d |-> 0]

NaN == [kind |-> "nan", n |-> 0, d |-> 0]

\* numpy's a / c of two floats: a division by zero gives inf, -inf or nan
FloatDiv(a, c) ==
    IF c = 0 THEN (IF a > 0 THEN PosInf ELSE IF a < 0 THEN NegInf ELSE NaN)
    ELSE IF c > 0 THEN Num(a, c) ELSE Num(-a, -c)

\* -x
FloatNeg(x) ==
    CASE x.kind = "num" -> Num(-x.n, x.d)
      [] x.kind = "inf" -> NegInf
      [] x.kind = "-inf" -> PosInf
      [] x.kind = "nan" -> NaN

\* x > y: every comparison with nan is False
FloatGt(x, y) ==
    CASE x.kind = "nan" \/ y.kind = "nan" -> FALSE
      [] x.kind = "inf" /\ y.kind # "nan" -> y.kind # "inf"
      [] x.kind = "-inf" /\ y.kind # "nan" -> FALSE
      [] x.kind = "num" /\ y.kind = "inf" -> FALSE
      [] x.kind = "num" /\ y.kind = "-inf" -> TRUE
      [] x.kind = "num" /\ y.kind = "num" -> x.n * y.d > y.n * x.d

\* x == y on floats
FloatEq(x, y) ==
    CASE x.kind = "nan" \/ y.kind = "nan" -> FALSE
      [] x.kind = "num" /\ y.kind = "num" -> x.n * y.d = y.n * x.d
      [] OTHER -> x.kind = y.kind

\* Python's max(x, y) and min(x, y): the first argument unless the second is
\* greater (smaller)
FloatMax(x, y) == IF FloatGt(y, x) THEN y ELSE x

FloatMin(x, y) == IF FloatGt(x, y) THEN y ELSE x

\* the demand series of the end use an action name starts with
DemandOf(b, key) ==
    CASE key = "cooling_storage" -> b.energy_simulation.cooling_demand
      [] key = "heating_storage" -> b.energy_simulation.heating_demand
      [] key = "dhw_storage" -> b.energy_simulation.dhw_demand

\* the storage an action name names
StorageOf(b, key) ==
    CASE key = "cooling_storage" -> b.cooling_storage
      [] key = "heating_storage" -> b.heating_storage
      [] key = "dhw_storage" -> b.dhw_storage

\* maximum_demand_ratio = maximum_demand/capacity
MaximumDemandRatio(maximum_demand, capacity) == FloatDiv(maximum_demand, capacity)

\* a fault: the ratio is not limited to [-1, 1]
StorageActionLimitUnclamped(maximum_demand, capacity) ==
    <<FloatNeg(MaximumDemandRatio(maximum_demand, capacity)),
      MaximumDemandRatio(maximum_demand, capacity)>>

\* the bound <<low, high>> estimate_action_space gives a storage action: the
\* division is evaluated before the try block and raises nothing, so the
\* ZeroDivisionError handler is never entered
StorageActionLimit(maximum_demand, capacity) ==
    LET maximum_demand_ratio == MaximumDemandRatio(maximum_demand, capacity)
    IN  <<FloatMax(FloatNeg(maximum_demand_ratio), Num(-1, 1)),
          FloatMin(maximum_demand_ratio, Num(1, 1))>>

\* the bound <<low, high>> estimate_action_space gives one action name
ActionLimit(b, key) ==
    CASE key = "electrical_storage" -> <<Num(-1, 1), Num(1, 1)>>
      [] key \in {"cooling_device", "heating_device"} -> <<Num(0, 1), Num(1, 1)>>
      [] OTHER -> StorageActionLimit(SeqMax(DemandOf(b, key)), StorageOf(b, key).capacity)

\* estimate_action_space: low and high, one entry per active action
estimate_action_space(b) ==
    [low |-> [i \in 1..Len(b.active_actions) |-> ActionLimit(b, b.active_actions[i])[1]],
     high |-> [i \in 1..Len(b.active_actions) |-> ActionLimit(b, b.active_actions[i])[2]]]

----------------------------------------------------------------------------
(* Building: the observation assembler. *)

\* soc[time_step]/capacity, in units of 1/SocDen; 0 stands in where the division
\* is by zero, which ObservationsRaise reports
SocFraction(storage, capacity, t) ==
    IF capacity = 0 THEN 0 ELSE Div(At(storage.soc, t) * SocDen, capacity)

\* the entry of the data dict of observations for one name
ObservationValue(b, key) ==
    LET t == b.time_step
        es == b.energy_simulation
    IN  CASE key = "solar_generation" -> get_generation(b.pv, At(es.solar_generation, t))
          [] key = "cooling_storage_soc" ->
                SocFraction(b.cooling_storage, b.cooling_storage.capacity, t)
          [] key = "heating_storage_soc" ->
                SocFraction(b.heating_storage, b.heating_storage.capacity, t)
          [] key = "dhw_storage_soc" ->
                SocFraction(b.dhw_storage, b.dhw_storage.capacity, t)
          [] key = "electrical_storage_soc" ->
                SocFraction(b.electrical_storage, b.electrical_storage.capacity_history[1], t)
          [] key = "net_electricity_consumption" -> At(b.net_electricity_consumption, t)
          [] key = "cooling_device_cop" ->
                get_cop(b.cooling_device, OutdoorTemperature(b), FALSE)
          [] key = "heating_device_cop" ->
                IF IsHeatPump(b.heating_device)
                THEN get_cop(b.cooling_device, OutdoorTemperature(b), TRUE)
                ELSE HeaterEfficiency(b.heating_device)
          [] key = "cooling_demand" -> At(es.cooling_demand, t)
          [] key = "heating_demand" -> At(es.heating_demand, t)
          [] key = "indoor_dry_bulb_temperature" -> At(es.indoor_dry_bulb_temperature, t)
          [] key = "cooling_dry_bulb_temperature_delta" ->
                Abs(At(es.cooling_dry_bulb_temperature_set_point, t)
                        - At(es.indoor_dry_bulb_temperature, t))
          [] key = "heating_dry_bulb_temperature_delta" ->
                Abs(At(es.heating_dry_bulb_temperature_set_point, t)
                        - At(es.indoor_dry_bulb_temperature, t))
          [] OTHER -> At(EstimateData(b, key), t)

\* building the data dict raises ZeroDivisionError
ObservationsRaise(b) ==
    \/ b.cooling_storage.capacity = 0
    \/ b.heating_storage.capacity = 0
    \/ b.dhw_storage.capacity = 0
    \/ b.electrical_storage.capacity_history[1] = 0

\* observations: the values of the active observations, in their order
observations(b) ==
    [i \in 1..Len(b.active_observations) |-> ObservationValue(b, b.active_observations[i])]

----------------------------------------------------------------------------
(* LSTMDynamicsBuilding: the device-demand update and the surrogate dynamics. *)

\* a normalized feature y stands for y / NormDen
NormDen == 10

\* the hidden state of the sequence model takes HiddenMod values
HiddenMod == 5

\* a fault: the elements are rolled towards the head of the array
RollBackward(x, shift) == [i \in 1..Len(x) |-> x[((i - 1 + shift) % Len(x)) + 1]]

\* numpy.roll(x, shift)
Roll(x, shift) == [i \in 1..Len(x) |-> x[((i - 1 - shift) % Len(x)) + 1]]

\* np.roll(np.concatenate([x, x[-lookback:]]), shift)[time_step:time_step + lookback]
Window(x, shift, time_step, lookback) ==
    SubSeq(Roll(x \o SubSeq(x, Len(x) - lookback + 1, Len(x)), shift),
           time_step + 1, time_step + lookback)

\* MinMaxScaler().fit([low, high]).transform(x): a zero range scales by 1
Transform(x, low, high) ==
    IF high = low THEN (x - low) * NormDen ELSE Div((x - low) * NormDen, high - low)

\* MinMaxScaler().fit([low, high]).inverse_transform(y)
InverseTransform(y, low, high) ==
    IF high = low THEN low + Div(y, NormDen) ELSE low + Div(y * (high - low), NormDen)

\* active_observations.index(name)
IndexOf(names, name) == CHOOSE i \in 1..Len(names) : names[i] = name

\* the fit data of the scaler of a model input column: the observation space's
\* bound of the observation it is normalized with
FitData(b, observation) ==
    LET ix == IndexOf(b.active_observations, observation)
    IN  <<b.observation_space.low[ix], b.observation_space.high[ix]>>

RECURSIVE SeqSum(_)
SeqSum(x) == IF x = <<>> THEN 0 ELSE x[1] + SeqSum(Tail(x))

\* one normalized column of the model input
NormalizedColumn(b, column, fit) ==
    [j \in 1..Len(column) |-> Transform(column[j], fit[1], fit[2])]

\* the columns of the model input
InputColumns ==
    { "q_hvac", "indoor_dry_bulb_temperature", "direct_solar_irradiance",
      "outdoor_dry_bulb_temperature", "occupant_count", "hour" }

\* the series a column of the model input is cut from
InputSeries(b, column) ==
    CASE column = "q_hvac" -> b.energy_simulation.cooling_demand
      [] column = "indoor_dry_bulb_temperature" ->
            b.energy_simulation.indoor_dry_bulb_temperature
      [] column = "direct_solar_irradiance" -> b.weather.direct_solar_irradiance
      [] column = "outdoor_dry_bulb_temperature" -> b.weather.outdoor_dry_bulb_temperature
      [] column = "occupant_count" -> b.energy_simulation.occupant_count
      [] column = "hour" -> b.energy_simulation.hour

\* the shift np.roll is given for a column: lookback - 1 for q_hvac, lookback for
\* the indoor temperature, for the periodic columns and for the remaining columns
InputShift(column, lookback) == IF column = "q_hvac" THEN lookback - 1 ELSE lookback

\* the rows update_dynamics cuts for a column at the building's time step
InputWindow(b, column) ==
    Window(InputSeries(b, column), InputShift(column, b.dynamics.lookback),
           b.time_step, b.dynamics.lookback)

\* the look-back window of model inputs update_dynamics builds, normalized
ModelInput(b) ==
    LET es == b.energy_simulation
    IN  [q_hvac |-> NormalizedColumn(b, InputWindow(b, "q_hvac"),
                                     FitData(b, "cooling_demand")),
         indoor_dry_bulb_temperature |->
             NormalizedColumn(b, InputWindow(b, "indoor_dry_bulb_temperature"),
                              FitData(b, "indoor_dry_bulb_temperature")),
         direct_solar_irradiance |->
             NormalizedColumn(b, InputWindow(b, "direct_solar_irradiance"),
                              FitData(b, "direct_solar_irradiance")),
         outdoor_dry_bulb_temperature |->
             NormalizedColumn(b, InputWindow(b, "outdoor_dry_bulb_temperature"),
                              FitData(b, "outdoor_dry_bulb_temperature")),
         occupant_count |->
             NormalizedColumn(b, InputWindow(b, "occupant_count"),
                              FitData(b, "occupant_count")),
         hour |-> NormalizedColumn(b, InputWindow(b, "hour"),
                                   <<SeqMin(es.hour), SeqMax(es.hour)>>)]

\* self.dynamics(model_input, hidden_list): the normalized prediction and the new
\* hidden state, each a function of the input window and the hidden state
DynamicsCall(model_input, hidden_list) ==
    LET total == SeqSum(model_input.q_hvac)
                     + SeqSum(model_input.indoor_dry_bulb_temperature)
                     + SeqSum(model_input.direct_solar_irradiance)
                     + SeqSum(model_input.outdoor_dry_bulb_temperature)
                     + SeqSum(model_input.occupant_count)
                     + SeqSum(model_input.hour)
        hidden == (2 * hidden_list + total + 1) % HiddenMod
    IN  [prediction |-> Div(NormDen * (hidden + 1), HiddenMod + 1), hidden_list |-> hidden]

\* a fault: the prediction overwrites the sample before the current time step
UpdateDynamicsWritesHistory(b) ==
    IF b.variant = "base" THEN b
    ELSE LET out == DynamicsCall(ModelInput(b), b.dynamics.hidden_list)
             fit == FitData(b, "indoor_dry_bulb_temperature")
             indoor_dry_bulb_temperature == InverseTransform(out.prediction, fit[1], fit[2])
         IN  [b EXCEPT
                 !.energy_simulation.indoor_dry_bulb_temperature[Max(b.time_step, 1)] =
                     indoor_dry_bulb_temperature,
                 !.dynamics.hidden_list = out.hidden_list]

\* a fault: the prediction is written to the sample of the next time step
UpdateDynamicsWritesNextStep(b) ==
    IF b.variant = "base" THEN b
    ELSE LET out == DynamicsCall(ModelInput(b), b.dynamics.hidden_list)
             fit == FitData(b, "indoor_dry_bulb_temperature")
             indoor_dry_bulb_temperature == InverseTransform(out.prediction, fit[1], fit[2])
         IN  [b EXCEPT
                 !.energy_simulation.indoor_dry_bulb_temperature[
                         Min(b.time_step + 2, Horizon)] = indoor_dry_bulb_temperature,
                 !.dynamics.hidden_list = out.hidden_list]

\* LSTMDynamicsBuilding.update_dynamics; Building.update_dynamics returns at once
update_dynamics(b) ==
    IF b.variant = "base" THEN b
    ELSE LET out == DynamicsCall(ModelInput(b), b.dynamics.hidden_list)
             fit == FitData(b, "indoor_dry_bulb_temperature")
             indoor_dry_bulb_temperature == InverseTransform(out.prediction, fit[1], fit[2])
         IN  [b EXCEPT
                 !.energy_simulation.indoor_dry_bulb_temperature[b.time_step + 1] =
                     indoor_dry_bulb_temperature,
                 !.dynamics.hidden_list = out.hidden_list]

\* LSTMDynamicsBuilding.update_cooling_device; Building.update_cooling_device
\* returns at once
update_cooling_device(b, action) ==
    IF b.variant = "base" THEN b
    ELSE LET electric_power == Min(Div(action * b.cooling_device.nominal_power, ActionDen),
                                   b.cooling_device.nominal_power)
             demand == IF b.energy_simulation.cooling_device_demand_schedule > 0
                       THEN HeatPumpMaxOutputPowerAt(b.cooling_device, OutdoorTemperature(b),
                                                     FALSE, electric_power)
                       ELSE 0
         IN  [b EXCEPT !.energy_simulation.cooling_demand[b.time_step + 1] = demand]

\* LSTMDynamicsBuilding.update_heating_device; Building.update_heating_device
\* returns at once
update_heating_device(b, action) ==
    IF b.variant = "base" THEN b
    ELSE LET electric_power == Min(Div(action * b.heating_device.nominal_power, ActionDen),
                                   b.heating_device.nominal_power)
             demand == IF b.energy_simulation.heating_device_demand_schedule > 0
                       THEN IF IsHeatPump(b.heating_device)
                            THEN HeatPumpMaxOutputPowerAt(b.heating_device,
                                     OutdoorTemperature(b), TRUE, electric_power)
                            ELSE HeaterMaxOutputPower(b.heating_device)
                       ELSE 0
         IN  [b EXCEPT !.energy_simulation.heating_demand[b.time_step + 1] = demand]

----------------------------------------------------------------------------
(* Building: construction and the operations of a step. *)

\* a fault: an absent action is the full fraction 1.0
ActionOrFull(action) == IF action = None THEN ActionDen ELSE action[1]

\* an absent action is 0.0
ActionOrDefault(action) == IF action = None THEN 0 ELSE action[1]

\* a fault: the dynamics hook runs first, before the device and storage updates
ApplyActionsDynamicsFirst(b, actions) ==
    LET b0 == update_dynamics(b)
        b1 == update_cooling_device(b0, ActionOrDefault(actions.cooling_device))
        b2 == update_heating_device(b1, ActionOrDefault(actions.heating_device))
        b3 == update_cooling_storage(b2, ActionOrDefault(actions.cooling_storage))
        b4 == update_heating_storage(b3, ActionOrDefault(actions.heating_storage))
        b5 == update_dhw_storage(b4, ActionOrDefault(actions.dhw_storage))
    IN  update_electrical_storage(b5, ActionOrDefault(actions.electrical_storage))

\* apply_actions
apply_actions(b, actions) ==
    LET b1 == update_cooling_device(b, ActionOrDefault(actions.cooling_device))
        b2 == update_heating_device(b1, ActionOrDefault(actions.heating_device))
        b3 == update_cooling_storage(b2, ActionOrDefault(actions.cooling_storage))
        b4 == update_heating_storage(b3, ActionOrDefault(actions.heating_storage))
        b5 == update_dhw_storage(b4, ActionOrDefault(actions.dhw_storage))
        b6 == update_electrical_storage(b5, ActionOrDefault(actions.electrical_storage))
    IN  update_dynamics(b6)

\* the energies the three thermal storage updates of apply_actions pass to charge
ChargedEnergies(b, actions) ==
    LET b2 == update_heating_device(
                  update_cooling_device(b, ActionOrDefault(actions.cooling_device)),
                  ActionOrDefault(actions.heating_device))
    IN  [cooling |-> CoolingStorageEnergy(b2, ActionOrDefault(actions.cooling_storage)),
         heating |-> HeatingStorageEnergy(b2, ActionOrDefault(actions.heating_storage)),
         dhw |-> DhwStorageEnergy(b2, ActionOrDefault(actions.dhw_storage))]

\* Environment.next_time_step
EnvironmentNextTimeStep(b) == [b EXCEPT !.time_step = @ + 1]

\* Environment.reset
EnvironmentReset(b) == [b EXCEPT !.time_step = 0]

\* a fault: the time step advances and the ledgers are not updated
NextTimeStepWithoutUpdate(b) == EnvironmentNextTimeStep(b)

\* a fault: the net consumption of the time step left is recomputed without the
\* storages before the ledgers get their next entries
NextTimeStepRewritingLedger(b) ==
    update_variables(EnvironmentNextTimeStep(
        [b EXCEPT !.cooling_device = DeviceNextTimeStep(@),
                  !.heating_device = DeviceNextTimeStep(@),
                  !.dhw_device = DeviceNextTimeStep(@),
                  !.net_electricity_consumption =
                      [@ EXCEPT ![Len(@)] =
                          At(b.energy_simulation.non_shiftable_load, b.time_step)]]))

\* next_time_step
next_time_step(b) ==
    update_variables(EnvironmentNextTimeStep(
        [b EXCEPT !.cooling_device = DeviceNextTimeStep(@),
                  !.heating_device = DeviceNextTimeStep(@),
                  !.dhw_device = DeviceNextTimeStep(@),
                  !.cooling_storage = StorageNextTimeStep(@),
                  !.heating_storage = StorageNextTimeStep(@),
                  !.dhw_storage = StorageNextTimeStep(@),
                  !.electrical_storage = StorageNextTimeStep(@)]))

\* a fault: reset estimates the two spaces again
ResetEstimatingSpaces(b) ==
    LET r ==
        update_variables(
            [EnvironmentReset(b) EXCEPT
                !.cooling_storage = StorageReset(@),
                !.heating_storage = StorageReset(@),
                !.dhw_storage = StorageReset(@),
                !.electrical_storage = StorageReset(@),
                !.cooling_device = DeviceReset(@),
                !.heating_device = DeviceReset(@),
                !.dhw_device = DeviceReset(@),
                !.cooling_electricity_consumption = <<>>,
                !.heating_electricity_consumption = <<>>,
                !.dhw_electricity_consumption = <<>>,
                !.solar_generation =
                    [i \in 1..Horizon |->
                        get_generation(b.pv, b.energy_simulation.solar_generation[i]) * (-1)],
                !.net_electricity_consumption = <<>>,
                !.net_electricity_consumption_emission = <<>>,
                !.net_electricity_consumption_price = <<>>])
    IN  [r EXCEPT !.observation_space = estimate_observation_space(r),
                  !.action_space = estimate_action_space(r)]

\* reset
reset(b) ==
    update_variables(
        [EnvironmentReset(b) EXCEPT
            !.cooling_storage = StorageReset(@),
            !.heating_storage = StorageReset(@),
            !.dhw_storage = StorageReset(@),
            !.electrical_storage = StorageReset(@),
            !.cooling_device = DeviceReset(@),
            !.heating_device = DeviceReset(@),
            !.dhw_device = DeviceReset(@),
            !.cooling_electricity_consumption = <<>>,
            !.heating_electricity_consumption = <<>>,
            !.dhw_electricity_consumption = <<>>,
            !.solar_generation =
                [i \in 1..Horizon |->
                    get_generation(b.pv, b.energy_simulation.solar_generation[i]) * (-1)],
            !.net_electricity_consumption = <<>>,
            !.net_electricity_consumption_emission = <<>>,
            !.net_electricity_consumption_price = <<>>])

\* the sub-objects a caller supplies to Building(...), or None for each
SuppliedObjects(cfg) ==
    IF cfg.supplied
    THEN [dhw_storage |-> Some(StorageTank(8)), cooling_storage |-> Some(StorageTank(8)),
          heating_storage |-> Some(StorageTank(8)),
          electrical_storage |-> Some(Battery(20, 10)),
          dhw_device |-> Some(ElectricHeater(4, 8)),
          cooling_device |-> Some(HeatPump(2, 3)),
          heating_device |-> Some(IF cfg.heating = "HeatPump" THEN HeatPump(2, 2)
                                  ELSE ElectricHeater(4, 9)),
          pv |-> Some(PV(4))]
    ELSE [dhw_storage |-> None, cooling_storage |-> None, heating_storage |-> None,
          electrical_storage |-> None, dhw_device |-> None, cooling_device |-> None,
          heating_device |-> None, pv |-> None]

\* Building.__init__ (and DynamicsBuilding.__init__): the attributes are set, then
\* the two spaces are estimated from them
Building(cfg) ==
    LET given == SuppliedObjects(cfg)
        b == [variant |-> cfg.variant,
              energy_simulation |-> EnergySimulation(cfg.profile),
              weather |-> Weather(cfg.profile),
              carbon_intensity |-> CarbonIntensity(cfg.profile),
              pricing |-> Pricing(cfg.profile),
              dhw_storage |-> StorageOrDefault(given.dhw_storage),
              cooling_storage |-> StorageOrDefault(given.cooling_storage),
              heating_storage |-> StorageOrDefault(given.heating_storage),
              electrical_storage |-> BatteryOrDefault(given.electrical_storage),
              dhw_device |-> DhwDeviceOrDefault(given.dhw_device),
              cooling_device |-> HeatPumpOrDefault(given.cooling_device),
              heating_device |-> HeatPumpOrDefault(given.heating_device),
              pv |-> PvOrDefault(given.pv),
              dynamics |-> LSTMDynamics,
              active_observations |-> ObservationNames,
              active_actions |-> ActionNames,
              observation_space |-> [low |-> <<>>, high |-> <<>>],
              action_space |-> [low |-> <<>>, high |-> <<>>],
              time_step |-> 0,
              cooling_electricity_consumption |-> <<>>,
              heating_electricity_consumption |-> <<>>,
              dhw_electricity_consumption |-> <<>>,
              solar_generation |-> <<>>,
              net_electricity_consumption |-> <<>>,
              net_electricity_consumption_emission |-> <<>>,
              net_electricity_consumption_price |-> <<>>]
    IN  [b EXCEPT !.observation_space = estimate_observation_space(b),
                  !.action_space = estimate_action_space(b)]

----------------------------------------------------------------------------
(* The single-building specification: a driver resets the building, then      *)
(* applies actions and advances the time step, one step at a time.            *)

\* the action fractions a driver passes, in units of 1/ActionDen
ActionVector(cd, hd, cs, hs, ds, es) ==
    [cooling_device |-> cd, heating_device |-> hd, cooling_storage |-> cs,
     heating_storage |-> hs, dhw_storage |-> ds, electrical_storage |-> es]

ActionVectors ==
    { ActionVector(Some(0), Some(0), Some(0), Some(0), Some(0), Some(0)),
      ActionVector(Some(2), Some(2), Some(2), Some(2), Some(2), Some(2)),
      ActionVector(Some(0), Some(0), Some(-2), Some(-2), Some(-2), Some(-2)),
      ActionVector(Some(1), None, Some(1), None, Some(-1), Some(-1)) }

NoCharge == [cooling |-> 0, heating |-> 0, dhw |-> 0]

\* the driver's actions lie in the building's action space: low <= action <= high
\* for every active action
InActionSpace(b, actions) ==
    \A i \in 1..Len(b.active_actions) :
        LET action == Num(ActionOrDefault(actions[b.active_actions[i]]), ActionDen)
        IN  /\ ~FloatGt(b.action_space.low[i], action)
            /\ ~FloatGt(action, b.action_space.high[i])
            /\ b.action_space.low[i].kind # "nan"
            /\ b.action_space.high[i].kind # "nan"

Init ==
    /\ \E cfg \in Configs :
        /\ bld = Building(cfg)
        /\ last = [op |-> "init", cfg |-> cfg,
                   actions |-> ActionVector(None, None, None, None, None, None),
                   charged |-> NoCharge, steps |-> 0, before |-> HiddenInit,
                   in_space |-> TRUE]
    /\ heap = <<>>
    /\ refs = <<>>
    /\ priv = <<>>
    /\ solo = <<>>
    /\ acted = "none"

\* the driver calls reset()
Reset ==
    /\ bld' = reset(bld)
    /\ last' = [last EXCEPT !.op = "reset", !.charged = NoCharge,
                            !.before = bld.dynamics.hidden_list, !.in_space = TRUE]
    /\ UNCHANGED <<heap, refs, priv, solo, acted>>

\* the driver calls apply_actions(...) once in a step
ApplyActions ==
    /\ last.op \in {"reset", "next_time_step"}
    /\ last.steps < MaxSteps
    /\ \E actions \in ActionVectors :
        /\ bld' = apply_actions(bld, actions)
        /\ last' = [last EXCEPT !.op = "apply_actions", !.actions = actions,
                                !.charged = ChargedEnergies(bld, actions),
                                !.steps = @ + 1,
                                !.in_space = @ /\ InActionSpace(bld, actions),
                                !.before = bld.dynamics.hidden_list]
    /\ UNCHANGED <<heap, refs, priv, solo, acted>>

\* the driver calls next_time_step() after the step's actions, while the episode
\* has a next time step
NextTimeStep ==
    /\ last.op = "apply_actions"
    /\ bld.time_step + 1 < Horizon
    /\ bld' = next_time_step(bld)
    /\ last' = [last EXCEPT !.op = "next_time_step", !.before = bld.dynamics.hidden_list]
    /\ UNCHANGED <<heap, refs, priv, solo, acted>>

Next == Reset \/ ApplyActions \/ NextTimeStep

Spec == Init /\ [][Next]_vars

----------------------------------------------------------------------------
(* The properties of the single-building specification. *)

\* the building has been reset at least once
Running == last.op # "init"

\* the six ledgers of the building
Ledgers(b) ==
    << b.cooling_electricity_consumption, b.heating_electricity_consumption,
       b.dhw_electricity_consumption, b.net_electricity_consumption,
       b.net_electricity_consumption_price, b.net_electricity_consumption_emission >>

\* C1: once the building has been reset, every one of the six ledgers has exactly
\* time_step + 1 entries, and a reset leaves exactly one entry at time step 0
C1_LedgerLength ==
    Running =>
        /\ \A i \in 1..6 : Len(Ledgers(bld)[i]) = bld.time_step + 1
        /\ last.op = "reset" =>
              bld.time_step = 0 /\ \A i \in 1..6 : Len(Ledgers(bld)[i]) = 1

\* C1: the step an episode can end with has been taken and appended to the ledgers
C1_Witness ==
    /\ last.op = "next_time_step"
    /\ bld.time_step = 2
    /\ Len(bld.net_electricity_consumption) = 3

\* C2: at every time step reached, the net electricity consumption is the sum of
\* the cooling, heating and DHW consumption, the electrical storage's consumption,
\* the non-shiftable load and the negated PV generation
C2_NetIsSum ==
    Running =>
        \A t \in 0..bld.time_step :
            At(bld.net_electricity_consumption, t) =
                At(bld.cooling_electricity_consumption, t)
                    + At(bld.heating_electricity_consumption, t)
                    + At(bld.dhw_electricity_consumption, t)
                    + At(bld.electrical_storage.electricity_consumption, t)
                    + At(bld.energy_simulation.non_shiftable_load, t)
                    - get_generation(bld.pv, At(bld.energy_simulation.solar_generation, t))

\* C2: a step with a load, a device consumption, a battery flow and PV generation
C2_Witness ==
    /\ Running
    /\ bld.time_step = 1
    /\ At(bld.energy_simulation.non_shiftable_load, 1) > 0
    /\ At(bld.electrical_storage.electricity_consumption, 1) > 0
    /\ At(bld.dhw_electricity_consumption, 1) > 0
    /\ get_generation(bld.pv, At(bld.energy_simulation.solar_generation, 1)) > 0

\* C3: at every time step reached, the emission is max(0, net consumption * carbon
\* intensity), so it is never negative
C3_EmissionClipped ==
    Running =>
        \A t \in 0..bld.time_step :
            LET product == At(bld.net_electricity_consumption, t)
                               * At(bld.carbon_intensity.carbon_intensity, t)
            IN  /\ At(bld.net_electricity_consumption_emission, t) >= 0
                /\ At(bld.net_electricity_consumption_emission, t) =
                       (IF product > 0 THEN product ELSE 0)

\* C3: the building exports (negative net consumption) at a positive carbon intensity
C3_Witness ==
    /\ Running
    /\ At(bld.net_electricity_consumption, bld.time_step) < 0
    /\ At(bld.carbon_intensity.carbon_intensity, bld.time_step) > 0
    /\ At(bld.net_electricity_consumption_emission, bld.time_step) = 0

\* clip(x, lower, upper) with lower <= upper
Clip(x, lower, upper) == IF x < lower THEN lower ELSE IF x > upper THEN upper ELSE x

\* the requested energy action * capacity of a storage
RequestedEnergy(action, storage) == Div(ActionOrDefault(action) * storage.capacity, ActionDen)

\* C5: the energy each of the three thermal storage updates passes to charge is
\* clip(action * capacity, -space_demand, max_output - space_demand)
C5_ChargeIsClipped ==
    last.op = "apply_actions" =>
        /\ last.charged.cooling =
               Clip(RequestedEnergy(last.actions.cooling_storage, bld.cooling_storage),
                    -SpaceDemand(bld, "cooling"),
                    MaxOutput(bld, "cooling") - SpaceDemand(bld, "cooling"))
        /\ last.charged.heating =
               Clip(RequestedEnergy(last.actions.heating_storage, bld.heating_storage),
                    -SpaceDemand(bld, "heating"),
                    MaxOutput(bld, "heating") - SpaceDemand(bld, "heating"))
        /\ last.charged.dhw =
               Clip(RequestedEnergy(last.actions.dhw_storage, bld.dhw_storage),
                    -SpaceDemand(bld, "dhw"),
                    MaxOutput(bld, "dhw") - SpaceDemand(bld, "dhw"))

\* C5: a full charge action on a cooling storage with no space demand, charged
\* with the device's maximum output, which is less than the capacity
C5_Witness ==
    /\ last.op = "apply_actions"
    /\ last.actions.cooling_storage = Some(ActionDen)
    /\ SpaceDemand(bld, "cooling") = 0
    /\ MaxOutput(bld, "cooling") > 0
    /\ MaxOutput(bld, "cooling") < bld.cooling_storage.capacity
    /\ last.charged.cooling = MaxOutput(bld, "cooling")

\* every sample of a series is 0
AllZero(x) == \A i \in 1..Len(x) : x[i] = 0

\* all six actions are zero
ZeroActions(actions) ==
    \A name \in DOMAIN actions : ActionOrDefault(actions[name]) = 0

\* the building has no cooling, heating or DHW demand and no solar generation
ZeroDemand(b) ==
    /\ AllZero(b.energy_simulation.cooling_demand)
    /\ AllZero(b.energy_simulation.heating_demand)
    /\ AllZero(b.energy_simulation.dhw_demand)
    /\ AllZero(b.energy_simulation.solar_generation)

\* C6: in a run of a single time step with zero actions, zero demand and zero
\* solar generation the net electricity consumption is the non-shiftable load
C6_ZeroRunIsLoad ==
    /\ (last.op = "reset" /\ ZeroDemand(bld)) =>
           At(bld.net_electricity_consumption, 0)
               = At(bld.energy_simulation.non_shiftable_load, 0)
    /\ (last.op = "next_time_step" /\ bld.time_step = 1 /\ ZeroActions(last.actions)
            /\ ZeroDemand(bld)) =>
           /\ At(bld.net_electricity_consumption, 0)
                  = At(bld.energy_simulation.non_shiftable_load, 0)
           /\ At(bld.net_electricity_consumption, 1)
                  = At(bld.energy_simulation.non_shiftable_load, 1)

\* C6: the zero run has taken its time step and the load is not zero
C6_Witness ==
    /\ last.op = "next_time_step"
    /\ bld.time_step = 1
    /\ ZeroActions(last.actions)
    /\ ZeroDemand(bld)
    /\ At(bld.net_electricity_consumption, 1) > 0

\* the value of one active observation lies within its bound of observation_space
WithinBound(b, i) ==
    /\ b.observation_space.low[i] <= observations(b)[i]
    /\ observations(b)[i] <= b.observation_space.high[i]

\* C4: at every step of an episode driven by actions of the action space, every
\* value of the observation lies within the bound estimate_observation_space
\* declared for its name
C4_ObservationsWithinBounds ==
    (Running /\ last.in_space /\ ~ObservationsRaise(bld)) =>
        \A i \in 1..Len(bld.active_observations) : WithinBound(bld, i)

\* C7: a cooling, heating or DHW storage action whose storage has capacity 0 is
\* given exactly the bound [-1, 1]
C7_ZeroCapacityBound ==
    \A i \in 1..Len(bld.active_actions) :
        LET key == bld.active_actions[i]
        IN  (key \in {"cooling_storage", "heating_storage", "dhw_storage"}
                /\ StorageOf(bld, key).capacity = 0) =>
                /\ FloatEq(bld.action_space.low[i], Num(-1, 1))
                /\ FloatEq(bld.action_space.high[i], Num(1, 1))

\* C8: a reset of an LSTM dynamics building leaves the hidden state of the
\* surrogate model at its initial state
C8_ResetClearsHiddenState ==
    (last.op = "reset" /\ bld.variant = "lstm") => bld.dynamics.hidden_list = HiddenInit

\* the series of energy_simulation other than the given ones are unchanged in a step
SeriesUnchangedExcept(names) ==
    \A f \in (DOMAIN bld.energy_simulation) \ names :
        bld'.energy_simulation[f] = bld.energy_simulation[f]

\* weather, pricing and carbon intensity are unchanged in a step
OtherDataUnchanged ==
    /\ bld'.weather = bld.weather
    /\ bld'.pricing = bld.pricing
    /\ bld'.carbon_intensity = bld.carbon_intensity

\* C9 as claimed: no operation modifies an exogenous schedule array other than the
\* indoor dry-bulb temperature
C9_ExogenousNeverWritten ==
    [][OtherDataUnchanged /\ SeriesUnchangedExcept({"indoor_dry_bulb_temperature"})]_vars

\* the series a step of the temperature-driven variant may write
WrittenSeries == {"indoor_dry_bulb_temperature", "cooling_demand", "heating_demand"}

\* C9 as amended: an operation writes no exogenous array but the samples at index
\* time_step of the indoor temperature, the cooling demand and the heating demand,
\* and those only in apply_actions of the temperature-driven variant
C9_OnlyCurrentSamplesWritten ==
    [][/\ OtherDataUnchanged
       /\ SeriesUnchangedExcept(WrittenSeries)
       /\ \A f \in WrittenSeries : \A i \in 1..Horizon :
              i # bld.time_step + 1 =>
                  bld'.energy_simulation[f][i] = bld.energy_simulation[f][i]
       /\ (last'.op # "apply_actions" \/ bld.variant = "base") =>
              bld'.energy_simulation = bld.energy_simulation]_vars

\* C9: a step of the temperature-driven variant has overwritten the cooling demand
\* and the indoor temperature of a time step after the first
C9_Witness ==
    /\ bld.variant = "lstm"
    /\ last.op = "apply_actions"
    /\ bld.time_step > 0
    /\ At(bld.energy_simulation.cooling_demand, bld.time_step)
           # At(EnergySimulation(last.cfg.profile).cooling_demand, bld.time_step)
    /\ At(bld.energy_simulation.indoor_dry_bulb_temperature, bld.time_step)
           # At(EnergySimulation(last.cfg.profile).indoor_dry_bulb_temperature, bld.time_step)

----------------------------------------------------------------------------
(* The two-building specification.  Objects live in a heap and a building    *)
(* holds references to its sub-objects, as Python attributes do; a driver    *)
(* interleaves the operations of building A and of building B.  solo[x] is   *)
(* building x run alone through the operations the driver has called on x.   *)

Buildings == {"A", "B"}

\* the attributes of a building that hold a reference to an object, in the order
\* __init__ sets them
ObjectAttributes ==
    << "energy_simulation", "weather", "carbon_intensity", "pricing", "dhw_storage",
       "cooling_storage", "heating_storage", "electrical_storage", "dhw_device",
       "cooling_device", "heating_device", "pv", "dynamics" >>

ObjectAttributeSet == { ObjectAttributes[k] : k \in 1..Len(ObjectAttributes) }

\* the object a setter constructs when it is given None
DefaultObject(attr) ==
    CASE attr \in {"dhw_storage", "cooling_storage", "heating_storage"} ->
             StorageOrDefault(None)
      [] attr = "electrical_storage" -> BatteryOrDefault(None)
      [] attr = "dhw_device" -> DhwDeviceOrDefault(None)
      [] attr \in {"cooling_device", "heating_device"} -> HeatPumpOrDefault(None)
      [] attr = "pv" -> PvOrDefault(None)

\* An object is identified by where it was constructed: by the caller for an
\* attribute of a building, or by the setter of an attribute of a building.
CallerRef(x, attr) == <<"caller", x, attr>>

\* a fault: the default of a setter is one object, constructed once and shared by
\* every building that is given None
SetAttributeSharedDefault(x, attr, given) ==
    IF given = None THEN <<"setter", "shared", attr>> ELSE given[1]

\* a setter of building x: the attribute refers to the given object, or to a
\* default the setter constructs when None is given
SetAttribute(x, attr, given) ==
    IF given = None THEN <<"setter", x, attr>> ELSE given[1]

\* the objects a caller constructs for one building: its data, its dynamics and
\* the sub-objects of SuppliedObjects
CallerObjects(cfg) ==
    LET given == SuppliedObjects(cfg)
    IN  [energy_simulation |-> Some(EnergySimulation(cfg.profile)),
         weather |-> Some(Weather(cfg.profile)),
         carbon_intensity |-> Some(CarbonIntensity(cfg.profile)),
         pricing |-> Some(Pricing(cfg.profile)),
         dhw_storage |-> given.dhw_storage, cooling_storage |-> given.cooling_storage,
         heating_storage |-> given.heating_storage,
         electrical_storage |-> given.electrical_storage,
         dhw_device |-> given.dhw_device, cooling_device |-> given.cooling_device,
         heating_device |-> given.heating_device, pv |-> given.pv,
         dynamics |-> Some(LSTMDynamics)]

\* __init__ of building x: every attribute is set through its setter to the
\* caller's object for it, or to None
ConstructBuilding(x, cfg) ==
    [attr \in ObjectAttributeSet |->
        SetAttribute(x, attr, IF CallerObjects(cfg)[attr] = None THEN None
                              ELSE Some(CallerRef(x, attr)))]

\* the heap after the buildings of cfgs are constructed with references r
ConstructedHeap(cfgs, r) ==
    [id \in { r[x][attr] : x \in Buildings, attr \in ObjectAttributeSet } |->
        IF id[1] = "caller" THEN CallerObjects(cfgs[id[2]])[id[3]][1]
        ELSE DefaultObject(id[3])]

\* the attributes of a building that are not references to objects
Private(b) ==
    [variant |-> b.variant,
     active_observations |-> b.active_observations,
     active_actions |-> b.active_actions,
     observation_space |-> b.observation_space,
     action_space |-> b.action_space,
     time_step |-> b.time_step,
     cooling_electricity_consumption |-> b.cooling_electricity_consumption,
     heating_electricity_consumption |-> b.heating_electricity_consumption,
     dhw_electricity_consumption |-> b.dhw_electricity_consumption,
     solar_generation |-> b.solar_generation,
     net_electricity_consumption |-> b.net_electricity_consumption,
     net_electricity_consumption_emission |-> b.net_electricity_consumption_emission,
     net_electricity_consumption_price |-> b.net_electricity_consumption_price]

\* the building as its operations see it: self.x of a sub-object attribute x is
\* the object the attribute refers to
Resolve(h, r, p) ==
    [variant |-> p.variant,
     energy_simulation |-> h[r.energy_simulation],
     weather |-> h[r.weather],
     carbon_intensity |-> h[r.carbon_intensity],
     pricing |-> h[r.pricing],
     dhw_storage |-> h[r.dhw_storage],
     cooling_storage |-> h[r.cooling_storage],
     heating_storage |-> h[r.heating_storage],
     electrical_storage |-> h[r.electrical_storage],
     dhw_device |-> h[r.dhw_device],
     cooling_device |-> h[r.cooling_device],
     heating_device |-> h[r.heating_device],
     pv |-> h[r.pv],
     dynamics |-> h[r.dynamics],
     active_observations |-> p.active_observations,
     active_actions |-> p.active_actions,
     observation_space |-> p.observation_space,
     action_space |-> p.action_space,
     time_step |-> p.time_step,
     cooling_electricity_consumption |-> p.cooling_electricity_consumption,
     heating_electricity_consumption |-> p.heating_electricity_consumption,
     dhw_electricity_consumption |-> p.dhw_electricity_consumption,
     solar_generation |-> p.solar_generation,
     net_electricity_consumption |-> p.net_electricity_consumption,
     net_electricity_consumption_emission |-> p.net_electricity_consumption_emission,
     net_electricity_consumption_price |-> p.net_electricity_consumption_price]

\* the heap after an operation has left the building as b: the objects the
\* building refers to are the sub-objects of b, every other object is untouched
Store(h, r, b) ==
    [id \in DOMAIN h |->
        IF \E attr \in ObjectAttributeSet : r[attr] = id
        THEN b[CHOOSE attr \in ObjectAttributeSet : r[attr] = id]
        ELSE h[id]]

\* the pairs of buildings of the model: two of the same configuration left to the
\* setters' defaults, two with supplied objects, one of each
ConfigPairs ==
    LET default == [variant |-> "lstm", heating |-> "HeatPump", supplied |-> FALSE,
                    profile |-> 2]
        pump == [variant |-> "lstm", heating |-> "HeatPump", supplied |-> TRUE,
                 profile |-> 2]
        heater == [variant |-> "base", heating |-> "ElectricHeater", supplied |-> TRUE,
                   profile |-> 3]
    IN  { <<default, default>>, <<pump, heater>>, <<default, pump>> }

\* the action vectors the driver of two buildings passes
TwoActionVectors == { actions \in ActionVectors : actions.cooling_device # Some(0) }

\* the number of times the driver has gone from one building to the other, counted
\* up to this number
SwitchCap == Cardinality(Buildings) + 1

InitTwo ==
    /\ \E pair \in ConfigPairs :
            /\ refs = [A |-> ConstructBuilding("A", pair[1]),
                       B |-> ConstructBuilding("B", pair[2])]
            /\ heap = ConstructedHeap([A |-> pair[1], B |-> pair[2]], refs)
            /\ priv = [A |-> Private(Building(pair[1])), B |-> Private(Building(pair[2]))]
            /\ solo = [A |-> Building(pair[1]), B |-> Building(pair[2])]
    /\ acted = [who |-> "none", phase |-> [A |-> "init", B |-> "init"], steps |-> 0,
                switches |-> 0]
    /\ bld = <<>>
    /\ last = <<>>

\* the driver's record of an operation op of building x
Acted(x, op) ==
    [acted EXCEPT !.who = x, !.phase[x] = op,
                  !.steps = IF op = "apply_actions" THEN @ + 1 ELSE @,
                  !.switches = IF acted.who \notin {"none", x}
                               THEN Min(@ + 1, SwitchCap) ELSE @]

\* building x goes from its present state to b; the building run alone goes to s
Operate(x, op, b, s) ==
    /\ heap' = Store(heap, refs[x], b)
    /\ priv' = [priv EXCEPT ![x] = Private(b)]
    /\ solo' = [solo EXCEPT ![x] = s]
    /\ acted' = Acted(x, op)
    /\ UNCHANGED <<refs, bld, last>>

\* the driver calls reset() of a building
TwoReset ==
    \E x \in Buildings :
        Operate(x, "reset", reset(Resolve(heap, refs[x], priv[x])), reset(solo[x]))

\* the driver calls apply_actions(...) of a building, once in the building's step
TwoApplyActions ==
    \E x \in Buildings :
        /\ acted.phase[x] \in {"reset", "next_time_step"}
        /\ acted.steps < MaxSteps
        /\ \E actions \in TwoActionVectors :
            Operate(x, "apply_actions",
                    apply_actions(Resolve(heap, refs[x], priv[x]), actions),
                    apply_actions(solo[x], actions))

\* the driver calls next_time_step() of a building after the step's actions
TwoNextTimeStep ==
    \E x \in Buildings :
        /\ acted.phase[x] = "apply_actions"
        /\ priv[x].time_step + 1 < Horizon
        /\ Operate(x, "next_time_step",
                   next_time_step(Resolve(heap, refs[x], priv[x])),
                   next_time_step(solo[x]))

NextTwo == TwoReset \/ TwoApplyActions \/ TwoNextTimeStep

SpecTwo == InitTwo /\ [][NextTwo]_vars

----------------------------------------------------------------------------
(* The properties of the two-building specification. *)

\* the state of the storages of a building
StorageState(b) ==
    << b.cooling_storage, b.heating_storage, b.dhw_storage, b.electrical_storage >>

\* the observations of a building, or that reading them raises
ObservationsOrRaise(b) ==
    IF ObservationsRaise(b) THEN <<"raise">> ELSE observations(b)

\* C10: under every interleaving of the operations of two buildings, each building
\* has the ledgers, the storage state, the observations (once it has been reset)
\* and every other attribute it has when run alone through its own operations, and
\* no object is referred to by both buildings
C10_BuildingsIsolated ==
    /\ \A x \in Buildings :
        LET b == Resolve(heap, refs[x], priv[x])
        IN  /\ Ledgers(b) = Ledgers(solo[x])
            /\ StorageState(b) = StorageState(solo[x])
            /\ acted.phase[x] # "init" =>
                   ObservationsOrRaise(b) = ObservationsOrRaise(solo[x])
            /\ b = solo[x]
    /\ \A attr, other \in ObjectAttributeSet : refs.A[attr] # refs.B[other]

\* C10: the driver has gone from one building to the other SwitchCap times, both
\* buildings are past their first time step with a charged cooling storage, and
\* they are in different states
C10_Witness ==
    /\ acted.switches = SwitchCap
    /\ \A x \in Buildings :
        /\ priv[x].time_step >= 1
        /\ acted.phase[x] = "apply_actions"
    /\ Last(heap[refs.A.cooling_storage].soc) > 0
    /\ Last(heap[refs.B.cooling_storage].soc) > 0
    /\ Ledgers(Resolve(heap, refs.A, priv.A)) # Ledgers(Resolve(heap, refs.B, priv.B))

----------------------------------------------------------------------------
(* Building: the resolution of the active observation names. *)

\* the elements of a list
Range(x) == { x[i] : i \in 1..Len(x) }

\* the keys of the data dict of estimate_observation_space
DataKeys(b) ==
    {"solar_generation"} \cup DOMAIN b.energy_simulation \cup DOMAIN b.weather
        \cup DOMAIN b.carbon_intensity \cup DOMAIN b.pricing

\* the names estimate_observation_space bounds without its data dict
EstimatorBranchKeys ==
    { "net_electricity_consumption", "cooling_storage_soc", "heating_storage_soc",
      "dhw_storage_soc", "electrical_storage_soc", "cooling_device_cop",
      "heating_device_cop", "indoor_dry_bulb_temperature",
      "cooling_dry_bulb_temperature_delta", "heating_dry_bulb_temperature_delta",
      "cooling_demand", "heating_demand" }

\* estimate_observation_space raises KeyError: the last branch reads data[key]
EstimateRaises(b) ==
    \E key \in Range(b.active_observations) :
        key \notin EstimatorBranchKeys /\ key \notin DataKeys(b)

\* the keys of the data dict of observations
ObservationDataKeys(b) ==
    DataKeys(b) \cup
        { "cooling_storage_soc", "heating_storage_soc", "dhw_storage_soc",
          "electrical_storage_soc", "net_electricity_consumption", "cooling_device_cop",
          "heating_device_cop", "cooling_demand", "heating_demand",
          "cooling_dry_bulb_temperature_set_point",
          "heating_dry_bulb_temperature_set_point",
          "cooling_dry_bulb_temperature_delta", "heating_dry_bulb_temperature_delta",
          "occupant_count" }

\* observations = {k: data[k] for k in self.active_observations if k in data.keys()}
ObservationsMapping(b) ==
    [key \in Range(b.active_observations) \cap ObservationDataKeys(b) |->
        ObservationValue(b, key)]

\* unknown_observations
UnknownObservations(b) == Range(b.active_observations) \ DOMAIN ObservationsMapping(b)

\* a fault: the check of the unknown observations is left out
ObservationsResultDropping(b) ==
    IF ObservationsRaise(b) THEN [raised |-> "ZeroDivisionError", value |-> <<>>]
    ELSE [raised |-> "none", value |-> ObservationsMapping(b)]

\* what a read of the observations property gives: the mapping, or the exception
\* raised
ObservationsResult(b) ==
    IF ObservationsRaise(b) THEN [raised |-> "ZeroDivisionError", value |-> <<>>]
    ELSE IF UnknownObservations(b) # {}
         THEN [raised |-> "AssertionError", value |-> <<>>]
         ELSE [raised |-> "none", value |-> ObservationsMapping(b)]

\* Building.__init__ with the given active observation names
BuildingObserving(cfg, names) ==
    LET b == [Building(cfg) EXCEPT !.active_observations = names]
    IN  [b EXCEPT !.observation_space = estimate_observation_space(b)]

\* a fault: the estimator accumulates the net consumption in place, in the
\* building's non-shiftable load
EstimateSpacesInPlace(b) ==
    [self |-> [b EXCEPT !.energy_simulation.non_shiftable_load =
                            NetElectricConsumptionEstimate(b)],
     observation_space |-> estimate_observation_space(b),
     action_space |-> estimate_action_space(b)]

\* estimate_observation_space() and estimate_action_space(): the building after
\* the calls, and the two spaces returned
EstimateSpaces(b) ==
    [self |-> b,
     observation_space |-> estimate_observation_space(b),
     action_space |-> estimate_action_space(b)]

----------------------------------------------------------------------------
(* The interface specification: a driver constructs a building with a list   *)
(* of active observation names, may set the list again, steps the building,  *)
(* reads its observations and calls the two estimators.                      *)

\* the lists of active observation names of the model
NameLists ==
    { ObservationNames,
      << "hour", "net_electricity_consumption" >>,
      << "cooling_storage_soc", "unknown_observation", "hour" >>,
      << "unknown_observation" >> }

\* the buildings of the interface specification
ApiConfigs ==
    { cfg \in Configs :
        \/ cfg.variant = "base" /\ cfg.heating = "HeatPump" /\ cfg.profile = 2
        \/ cfg.variant = "lstm" /\ cfg.heating = "ElectricHeater" /\ cfg.profile = 3 }

Unread == [raised |-> "unread", value |-> <<>>]

\* the driver's record of an operation op
ApiDone(op) ==
    [last EXCEPT !.op = op, !.read = Unread, !.estimate = None, !.calls = 0]

\* Building(...): construction raises when the estimator cannot resolve a name
InitApi ==
    /\ \E cfg \in ApiConfigs : \E names \in NameLists :
        /\ cfg.variant = "lstm" => names = ObservationNames
        /\ bld = IF EstimateRaises([Building(cfg) EXCEPT !.active_observations = names])
                 THEN None ELSE BuildingObserving(cfg, names)
        /\ last = [op |-> IF bld = None THEN "raise" ELSE "init", phase |-> "init",
                   cfg |-> cfg, steps |-> 0, set |-> FALSE, read |-> Unread,
                   estimate |-> None, calls |-> 0]
    /\ heap = <<>>
    /\ refs = <<>>
    /\ priv = <<>>
    /\ solo = <<>>
    /\ acted = "none"

\* observation_metadata.setter: the active names change, the spaces are not
\* estimated again
ApiSetObservationMetadata ==
    /\ bld # None
    /\ bld.variant = "base"
    /\ \E names \in NameLists :
        /\ names # bld.active_observations
        /\ bld' = [bld EXCEPT !.active_observations = names]
    /\ last' = [ApiDone("set") EXCEPT !.set = TRUE]
    /\ UNCHANGED <<heap, refs, priv, solo, acted>>

\* the capacities of the DHW storage tanks the driver sets
StorageCapacities == {2, 20}

\* dhw_storage.setter: the driver gives the building another DHW storage before
\* the first reset
ApiSetDhwStorage ==
    /\ bld # None
    /\ last.phase = "init"
    /\ \E capacity \in StorageCapacities :
        /\ capacity # bld.dhw_storage.capacity
        /\ bld' = [bld EXCEPT !.dhw_storage = StorageOrDefault(Some(StorageTank(capacity)))]
    /\ last' = ApiDone("set_storage")
    /\ UNCHANGED <<heap, refs, priv, solo, acted>>

ApiReset ==
    /\ bld # None
    /\ bld' = reset(bld)
    /\ last' = [ApiDone("reset") EXCEPT !.phase = "reset"]
    /\ UNCHANGED <<heap, refs, priv, solo, acted>>

ApiApplyActions ==
    /\ bld # None
    /\ last.phase \in {"reset", "next_time_step"}
    /\ last.steps < MaxSteps
    /\ \E actions \in TwoActionVectors :
        bld' = apply_actions(bld, actions)
    /\ last' = [ApiDone("apply_actions") EXCEPT !.phase = "apply_actions",
                                               !.steps = @ + 1]
    /\ UNCHANGED <<heap, refs, priv, solo, acted>>

ApiNextTimeStep ==
    /\ bld # None
    /\ last.phase = "apply_actions"
    /\ bld.time_step + 1 < Horizon
    /\ bld' = next_time_step(bld)
    /\ last' = [ApiDone("next_time_step") EXCEPT !.phase = "next_time_step"]
    /\ UNCHANGED <<heap, refs, priv, solo, acted>>

\* the driver reads the observations property of a building that has been reset
ApiObservations ==
    /\ bld # None
    /\ last.phase # "init"
    /\ last' = [ApiDone("observations") EXCEPT !.read = ObservationsResult(bld)]
    /\ UNCHANGED <<bld, heap, refs, priv, solo, acted>>

\* the driver calls the two estimators; calls counts the calls in a row, up to
\* a second
ApiEstimate ==
    /\ bld # None
    /\ ~EstimateRaises(bld)
    /\ bld' = EstimateSpaces(bld).self
    /\ last' = [ApiDone("estimate") EXCEPT
                   !.estimate = Some([observation_space |->
                                          EstimateSpaces(bld).observation_space,
                                      action_space |-> EstimateSpaces(bld).action_space]),
                   !.calls = IF last.op = "estimate" THEN 2 ELSE 1]
    /\ UNCHANGED <<heap, refs, priv, solo, acted>>

NextApi ==
    \/ ApiSetObservationMetadata
    \/ ApiSetDhwStorage
    \/ ApiReset
    \/ ApiApplyActions
    \/ ApiNextTimeStep
    \/ ApiObservations
    \/ ApiEstimate

SpecApi == InitApi /\ [][NextApi]_vars

----------------------------------------------------------------------------
(* The properties of the interface specification. *)

\* C11: a read of the observations gives a mapping whose keys are exactly the
\* active observation names, or raises; it raises whenever an active name is not
\* a key of the data; and a building constructed with such a name does not exist,
\* the construction having raised
C11_NamesResolvedOrRaise ==
    /\ last.op = "observations" =>
        /\ last.read.raised = "none" =>
               DOMAIN last.read.value = Range(bld.active_observations)
        /\ (\E key \in Range(bld.active_observations) :
                key \notin ObservationDataKeys(bld)) => last.read.raised # "none"
    /\ (bld # None /\ ~last.set) =>
           Range(bld.active_observations) \subseteq ObservationDataKeys(bld)
    /\ last.op = "raise" => bld = None

\* C11: a read has raised on a name set after the construction that is not a key
\* of the data, every storage having a capacity
C11_Witness ==
    /\ last.op = "observations"
    /\ last.read.raised = "AssertionError"
    /\ "unknown_observation" \in Range(bld.active_observations)
    /\ ~ObservationsRaise(bld)

----------------------------------------------------------------------------
(* Further properties of the single-building specification. *)

\* the four storage SOC observations
SocObservationNames ==
    { "cooling_storage_soc", "heating_storage_soc", "dhw_storage_soc",
      "electrical_storage_soc" }

\* C12: once the building has been reset, computing the SOC observations divides
\* by no zero capacity, and each of them is between 0 and 1
C12_SocDefined ==
    Running =>
        /\ ~ObservationsRaise(bld)
        /\ \A key \in SocObservationNames :
               /\ ObservationValue(bld, key) >= 0
               /\ ObservationValue(bld, key) <= SocDen

C14_SpacesFrozen ==
    /\ bld.observation_space = Building(last.cfg).observation_space
    /\ bld.action_space = Building(last.cfg).action_space
    /\ Len(bld.observation_space.low) = Len(bld.active_observations)
    /\ Len(bld.observation_space.high) = Len(bld.active_observations)
    /\ Len(bld.action_space.low) = Len(bld.active_actions)
    /\ Len(bld.action_space.high) = Len(bld.active_actions)

\* C14: a building has been reset after steps that overwrote its demand, so that
\* an estimate made now would differ from the observation space it has
C14_Witness ==
    /\ last.op = "reset"
    /\ last.steps > 0
    /\ estimate_observation_space(bld) # bld.observation_space

\* x is an initial segment of y
IsPrefix(x, y) == Len(x) <= Len(y) /\ \A i \in 1..Len(x) : y[i] = x[i]

\* C15: an operation other than reset leaves every entry of every ledger as it
\* was appended: each ledger before the operation is an initial segment of the
\* ledger after it
C15_LedgersAppendOnly ==
    [][last'.op # "reset" =>
          \A k \in 1..Len(Ledgers(bld)) : IsPrefix(Ledgers(bld)[k], Ledgers(bld')[k])]_vars

\* C15: the episode is at its last time step, actions have been applied there,
\* and the net consumption ledger holds entries other than the load of their
\* time steps
C15_Witness ==
    /\ last.op = "apply_actions"
    /\ bld.time_step = Horizon - 1
    /\ Len(bld.net_electricity_consumption) = Horizon
    /\ \E i \in 1..Horizon - 1 :
           bld.net_electricity_consumption[i] # bld.energy_simulation.non_shiftable_load[i]

\* C16: when the heating device is not a heat pump, the low and the high bound of
\* heating_device_cop are both the heating device's efficiency
C16_HeaterCopBound ==
    \A i \in 1..Len(bld.active_observations) :
        (bld.active_observations[i] = "heating_device_cop"
            /\ ~IsHeatPump(bld.heating_device)) =>
                /\ bld.observation_space.low[i] = bld.heating_device.efficiency
                /\ bld.observation_space.high[i] = bld.heating_device.efficiency

\* C16: a building has been constructed with a resistive heater for heating whose
\* efficiency is not that of its DHW heater, and heating_device_cop is active
C16_Witness ==
    /\ ~IsHeatPump(bld.heating_device)
    /\ bld.heating_device.efficiency # bld.dhw_device.efficiency
    /\ "heating_device_cop" \in Range(bld.active_observations)
    /\ last.op = "init"

\* the bound of C17 for a maximum demand and a capacity > 0: the ratio of the two
\* with either sign where the demand is below the capacity, -1 and 1 otherwise
ExpectedStorageBound(maximum_demand, capacity) ==
    IF maximum_demand >= capacity THEN <<Num(-1, 1), Num(1, 1)>>
    ELSE <<Num(-maximum_demand, capacity), Num(maximum_demand, capacity)>>

\* the bound of C17 for an action name
ExpectedActionBound(b, key) ==
    CASE key = "electrical_storage" -> <<Num(-1, 1), Num(1, 1)>>
      [] key \in {"cooling_device", "heating_device"} -> <<Num(0, 1), Num(1, 1)>>
      [] OTHER -> ExpectedStorageBound(SeqMax(DemandOf(b, key)), StorageOf(b, key).capacity)

\* C17: the action space estimate_action_space returns has, for every thermal
\* storage action with a capacity > 0, the bound [max(-r, -1), min(r, 1)] with r
\* the maximum demand over the capacity, [-1, 1] for the electrical storage and
\* [0, 1] for the two devices
C17_ActionBounds ==
    last.op = "estimate" =>
        \A i \in 1..Len(bld.active_actions) :
            LET key == bld.active_actions[i]
                space == last.estimate[1].action_space
            IN  (key \in {"cooling_storage", "heating_storage", "dhw_storage"}
                     => StorageOf(bld, key).capacity > 0) =>
                    /\ FloatEq(space.low[i], ExpectedActionBound(bld, key)[1])
                    /\ FloatEq(space.high[i], ExpectedActionBound(bld, key)[2])

\* C17: the estimate was made for a DHW storage smaller than the maximum DHW
\* demand and a cooling storage larger than the maximum cooling demand
C17_Witness ==
    /\ last.op = "estimate"
    /\ SeqMax(bld.energy_simulation.dhw_demand) > bld.dhw_storage.capacity
    /\ bld.dhw_storage.capacity > 0
    /\ SeqMax(bld.energy_simulation.cooling_demand) > 0
    /\ SeqMax(bld.energy_simulation.cooling_demand) < bld.cooling_storage.capacity

\* the action vector with the actions named in omitted replaced by value
WithActions(actions, omitted, value) ==
    [key \in DOMAIN actions |-> IF key \in omitted THEN value ELSE actions[key]]

\* every action at its full fraction 1.0
FullActions == [key \in Range(ActionNames) |-> Some(ActionDen)]

\* C18: in every state where the driver may apply actions, leaving out any subset
\* of the six actions gives the state that passing 0.0 for them gives, the other
\* actions being at their full fraction
C18_AbsentActionIsZero ==
    (last.op \in {"reset", "next_time_step"} /\ last.steps < MaxSteps) =>
        \A omitted \in SUBSET Range(ActionNames) :
            apply_actions(bld, WithActions(FullActions, omitted, None))
                = apply_actions(bld, WithActions(FullActions, omitted, Some(0)))

\* C18: actions were applied with the heating device and heating storage actions
\* left out, on a building where a full heating storage action would have charged
\* the storage, and the storage was not charged
C18_Witness ==
    /\ last.op = "apply_actions"
    /\ last.actions.heating_storage = None
    /\ last.actions.heating_device = None
    /\ last.actions.cooling_storage # None
    /\ last.charged.heating = 0
    /\ bld.heating_storage.capacity > 0
    /\ MaxOutput(bld, "heating") > SpaceDemand(bld, "heating")

\* C19: apply_actions of the temperature-driven variant charges the cooling
\* storage for the demand its device update has written for the step, then calls
\* the dynamics once, on the input that holds that demand and from the hidden
\* state the step began with, and writes the prediction; it appends to no ledger.
\* next_time_step appends one entry to each ledger and does not call the dynamics.
C19_StepOrder ==
    [][/\ (last'.op = "apply_actions" /\ bld.variant = "lstm") =>
            LET out == DynamicsCall(ModelInput(bld'), bld.dynamics.hidden_list)
                fit == FitData(bld', "indoor_dry_bulb_temperature")
            IN  /\ bld'.cooling_storage =
                       charge(bld.cooling_storage,
                              CoolingStorageEnergy(bld',
                                  ActionOrDefault(last'.actions.cooling_storage)))
                /\ bld'.dynamics.hidden_list = out.hidden_list
                /\ At(bld'.energy_simulation.indoor_dry_bulb_temperature, bld.time_step)
                       = InverseTransform(out.prediction, fit[1], fit[2])
       /\ last'.op = "apply_actions" => Ledgers(bld') = Ledgers(bld)
       /\ last'.op = "next_time_step" =>
            /\ bld'.dynamics = bld.dynamics
            /\ \A k \in 1..Len(Ledgers(bld)) :
                   Len(Ledgers(bld')[k]) = Len(Ledgers(bld)[k]) + 1]_vars

\* C19: a step of the temperature-driven variant has written a cooling demand
\* other than the schedule's, charged the cooling storage and moved the hidden
\* state
C19_Witness ==
    /\ last.op = "apply_actions"
    /\ bld.variant = "lstm"
    /\ At(bld.energy_simulation.cooling_demand, bld.time_step)
           # At(EnergySimulation(last.cfg.profile).cooling_demand, bld.time_step)
    /\ last.charged.cooling # 0
    /\ bld.dynamics.hidden_list # last.before

\* get_input_power of a device of either type for an output power
InputPower(device, output_power, temperature, heating) ==
    IF IsHeatPump(device) THEN HeatPumpInputPower(device, output_power, temperature, heating)
    ELSE HeaterInputPower(device, output_power)

\* C20: the entry update_variables has just appended to the cooling, heating and
\* DHW consumption ledgers is the input power of the cooling, heating and DHW
\* device for the demand of the time step plus the energy balance of the storage
C20_ConsumptionOfOwnDevice ==
    last.op \in {"reset", "next_time_step"} =>
        LET t == bld.time_step
            es == bld.energy_simulation
        IN  /\ At(bld.cooling_electricity_consumption, t) =
                   InputPower(bld.cooling_device,
                       At(es.cooling_demand, t) + At(bld.cooling_storage.energy_balance, t),
                       OutdoorTemperature(bld), FALSE)
            /\ At(bld.heating_electricity_consumption, t) =
                   InputPower(bld.heating_device,
                       At(es.heating_demand, t) + At(bld.heating_storage.energy_balance, t),
                       OutdoorTemperature(bld), TRUE)
            /\ At(bld.dhw_electricity_consumption, t) =
                   InputPower(bld.dhw_device,
                       At(es.dhw_demand, t) + At(bld.dhw_storage.energy_balance, t),
                       OutdoorTemperature(bld), TRUE)

----------------------------------------------------------------------------
(* The thermal storage updates and the device they draw on. *)

\* the three end uses with a thermal storage
EndUses == {"cooling", "heating", "dhw"}

\* the energy the storage update of an end use passes to charge for an action
StorageEnergy(b, end_use, action) ==
    CASE end_use = "cooling" -> CoolingStorageEnergy(b, action)
      [] end_use = "heating" -> HeatingStorageEnergy(b, action)
      [] end_use = "dhw" -> DhwStorageEnergy(b, action)

\* the action fractions of C21, in units of 1/ActionDen: from -2.0 to 2.0
ActionRange == (-2 * ActionDen)..(2 * ActionDen)

\* C21: for a space demand >= 0 and a maximum output >= 0, the energy a thermal
\* storage update passes to charge is at least -space_demand, and the output
\* space_demand + energy it asks of the device is in [0, max_output]; this for
\* the energies the last apply_actions passed and for every action fraction
C21_StorageWithinDevice ==
    Running =>
        \A end_use \in EndUses :
            LET space_demand == SpaceDemand(bld, end_use)
                max_output == MaxOutput(bld, end_use)
                Within(energy) == /\ -space_demand <= energy
                                  /\ 0 <= space_demand + energy
                                  /\ space_demand + energy <= max_output
            IN  (space_demand >= 0 /\ max_output >= 0) =>
                    /\ last.op = "apply_actions" => Within(last.charged[end_use])
                    /\ \A action \in ActionRange :
                           Within(StorageEnergy(bld, end_use, action))

\* C21: a full discharge of the cooling storage was requested against a smaller
\* space demand, and the storage was discharged by the space demand only; and a
\* full charge of the DHW storage was requested of a device with no output to
\* spare, and the device was asked for its maximum output
C21_Witness ==
    /\ last.op = "apply_actions"
    /\ SpaceDemand(bld, "cooling") > 0
    /\ RequestedEnergy(last.actions.cooling_storage, bld.cooling_storage)
           < -SpaceDemand(bld, "cooling")
    /\ last.charged.cooling = -SpaceDemand(bld, "cooling")
    /\ \E action \in ActionRange :
           /\ Div(action * bld.dhw_storage.capacity, ActionDen)
                  > MaxOutput(bld, "dhw") - SpaceDemand(bld, "dhw")
           /\ SpaceDemand(bld, "dhw") + StorageEnergy(bld, "dhw", action)
                  = MaxOutput(bld, "dhw")

----------------------------------------------------------------------------
(* The device-demand update of the temperature-driven variant. *)

\* the maximum output power of a device of either type for an electric power
MaxOutputPowerFor(device, temperature, heating, electric_power) ==
    IF IsHeatPump(device)
    THEN HeatPumpMaxOutputPowerAt(device, temperature, heating, electric_power)
    ELSE Div(Min(electric_power, device.nominal_power) * device.efficiency, EffDen)

\* the demand C22 gives a device update: 0 for a schedule flag <= 0, and otherwise
\* the maximum output power for min(action * nominal_power, nominal_power)
ExpectedDeviceDemand(b, device, flag, action, heating) ==
    IF flag <= 0 THEN 0
    ELSE MaxOutputPowerFor(device, OutdoorTemperature(b), heating,
             Min(Div(ActionOrDefault(action) * device.nominal_power, ActionDen),
                 device.nominal_power))

\* the samples of a series other than the one at the time step are unchanged
OnlyCurrentSampleWritten(series) ==
    \A i \in 1..Horizon :
        i # bld.time_step + 1 =>
            bld'.energy_simulation[series][i] = bld.energy_simulation[series][i]

\* C22: apply_actions of the temperature-driven variant leaves as the cooling and
\* the heating demand of the time step 0 where the device's schedule flag is <= 0,
\* and otherwise the device's maximum output power for the electric power
\* min(action * nominal_power, nominal_power); no other demand sample is written
C22_DeviceDemand ==
    [][(last'.op = "apply_actions" /\ bld.variant = "lstm") =>
          LET es == bld'.energy_simulation
          IN  /\ At(es.cooling_demand, bld.time_step) =
                     ExpectedDeviceDemand(bld', bld.cooling_device,
                         es.cooling_device_demand_schedule,
                         last'.actions.cooling_device, FALSE)
              /\ At(es.heating_demand, bld.time_step) =
                     ExpectedDeviceDemand(bld', bld.heating_device,
                         es.heating_device_demand_schedule,
                         last'.actions.heating_device, TRUE)
              /\ OnlyCurrentSampleWritten("cooling_demand")
              /\ OnlyCurrentSampleWritten("heating_demand")]_vars

\* C23: the call of update_dynamics in apply_actions writes the element of the
\* indoor dry-bulb temperature array at index time_step, with the prediction the
\* model gives, and leaves the elements below time_step and every other element
\* as they were; no other operation writes the array
C23_DynamicsWritesCurrentSample ==
    [][/\ OnlyCurrentSampleWritten("indoor_dry_bulb_temperature")
       /\ (last'.op = "apply_actions" /\ bld.variant = "lstm") =>
              LET out == DynamicsCall(ModelInput(bld'), bld.dynamics.hidden_list)
                  fit == FitData(bld', "indoor_dry_bulb_temperature")
              IN  At(bld'.energy_simulation.indoor_dry_bulb_temperature, bld.time_step)
                      = InverseTransform(out.prediction, fit[1], fit[2])
       /\ (last'.op # "apply_actions" \/ bld.variant = "base") =>
              bld'.energy_simulation.indoor_dry_bulb_temperature
                  = bld.energy_simulation.indoor_dry_bulb_temperature]_vars

\* C23: at a time step after the first, the dynamics have written a temperature
\* other than the schedule's, and the sample of the first time step still holds
\* the temperature written there, while the samples ahead are the schedule's
C23_Witness ==
    /\ bld.variant = "lstm"
    /\ last.op = "apply_actions"
    /\ bld.time_step = 1
    /\ \A t \in 0..1 :
           At(bld.energy_simulation.indoor_dry_bulb_temperature, t)
               # At(EnergySimulation(last.cfg.profile).indoor_dry_bulb_temperature, t)
    /\ \A t \in 2..Horizon - 1 :
           At(bld.energy_simulation.indoor_dry_bulb_temperature, t)
               = At(EnergySimulation(last.cfg.profile).indoor_dry_bulb_temperature, t)

----------------------------------------------------------------------------
(* The look-back window of the surrogate dynamics. *)

\* the sample of a series at an index of the circular horizon
CircularAt(x, index) == x[(index % Len(x)) + 1]

\* C24: in the window update_dynamics builds at time step t, row j of every column
\* but the indoor temperature holds the sample t - lookback + 1 + j, so that the
\* last row is the sample of t, and row j of the indoor temperature column holds
\* the sample one step earlier
C24_IndoorColumnLagsOthers ==
    (Running /\ bld.variant = "lstm") =>
        \A j \in 0..bld.dynamics.lookback - 1 :
            LET first == bld.time_step - bld.dynamics.lookback + 1
            IN  /\ InputWindow(bld, "indoor_dry_bulb_temperature")[j + 1] =
                       CircularAt(bld.energy_simulation.indoor_dry_bulb_temperature,
                                  first + j - 1)
                /\ \A column \in InputColumns \ {"indoor_dry_bulb_temperature"} :
                       InputWindow(bld, column)[j + 1] =
                           CircularAt(InputSeries(bld, column), first + j)

----------------------------------------------------------------------------
(* The window specification: the window extraction of update_dynamics applied *)
(* to a horizon array, a time step, a look-back and a shift.                  *)

\* the horizon arrays of the window specification: up to Horizon samples
WindowArrays == UNION { [1..n -> 0..(Horizon - 1)] : n \in 1..Horizon }

\* the inputs of a window extraction: the array, a time step of the horizon, a
\* look-back no longer than the horizon, and the shift lookback or lookback - 1
WindowInputs ==
    { w \in [x : WindowArrays, time_step : 0..(Horizon - 1), lookback : 1..Horizon,
             shift : 0..Horizon] :
        /\ w.time_step < Len(w.x)
        /\ w.lookback <= Len(w.x)
        /\ w.shift \in {w.lookback, w.lookback - 1} }

InitWindow ==
    /\ \E w \in WindowInputs : bld = [input |-> w, window |-> <<>>]
    /\ last = [op |-> "init"]
    /\ heap = <<>>
    /\ refs = <<>>
    /\ priv = <<>>
    /\ solo = <<>>
    /\ acted = "none"

\* update_dynamics cuts the window of a column
ExtractWindow ==
    /\ last.op = "init"
    /\ bld' = [bld EXCEPT !.window = Window(bld.input.x, bld.input.shift,
                                            bld.input.time_step, bld.input.lookback)]
    /\ last' = [op |-> "window"]
    /\ UNCHANGED <<heap, refs, priv, solo, acted>>

NextWindow == ExtractWindow

SpecWindow == InitWindow /\ [][NextWindow]_vars

\* C25: the window cut for time step t, look-back L and shift s from an array x of
\* N >= L samples has exactly L rows, and its row j is x[(t + j - s) mod N]
C25_WindowIsModularIndexing ==
    last.op = "window" =>
        /\ Len(bld.window) = bld.input.lookback
        /\ \A j \in 0..bld.input.lookback - 1 :
               bld.window[j + 1] =
                   CircularAt(bld.input.x, bld.input.time_step + j - bld.input.shift)

\* C25: a window was cut at time step 0 with a look-back of the whole horizon, so
\* that each of its rows is a sample of before index 0, from an array whose
\* samples all differ
C25_Witness ==
    /\ last.op = "window"
    /\ bld.input.time_step = 0
    /\ bld.input.lookback = Len(bld.input.x)
    /\ bld.input.shift = bld.input.lookback
    /\ Len(bld.input.x) = Horizon
    /\ \A i, k \in 1..Horizon : i # k => bld.input.x[i] # bld.input.x[k]
    /\ bld.window = bld.input.x

----------------------------------------------------------------------------
(* The ideal variables of the temperature-driven variant. *)

(* __set_ideal_variables binds each ideal attribute to the array that the      *)
(* attribute of energy_simulation is bound to; no copy is made.  The array is  *)
(* written in place by the device updates and by update_dynamics, so a read of *)
(* an ideal property gives the array of energy_simulation as it is then.       *)

ideal_cooling_demand(b) == b.energy_simulation.cooling_demand

ideal_heating_demand(b) == b.energy_simulation.heating_demand

ideal_dhw_demand(b) == b.energy_simulation.dhw_demand

ideal_indoor_dry_bulb_temperature(b) == b.energy_simulation.indoor_dry_bulb_temperature

\* C26: in the temperature-driven variant the four ideal arrays hold, after any
\* sequence of operations, the values the schedules had at construction
C26_IdealKeepsSchedule ==
    bld.variant = "lstm" =>
        LET schedule == EnergySimulation(last.cfg.profile)
        IN  /\ ideal_cooling_demand(bld) = schedule.cooling_demand
            /\ ideal_heating_demand(bld) = schedule.heating_demand
            /\ ideal_dhw_demand(bld) = schedule.dhw_demand
            /\ ideal_indoor_dry_bulb_temperature(bld) = schedule.indoor_dry_bulb_temperature

----------------------------------------------------------------------------
(* Building: the series derived from the ledgers.  An array is the record of *)
(* its elements, or of the ValueError numpy raised in computing it.          *)

Array(value) == [raised |-> FALSE, value |-> value]

ValueError == [raised |-> TRUE, value |-> <<>>]

\* numpy's broadcast of two one-dimensional arrays: the pairs of the elements
\* an operation is applied to; the lengths are equal, or one of them is 1 and its
\* element serves every index; other shapes raise ValueError
Broadcast(x, y) ==
    IF x.raised \/ y.raised THEN ValueError
    ELSE IF Len(x.value) # Len(y.value) /\ Len(x.value) # 1 /\ Len(y.value) # 1
         THEN ValueError
         ELSE Array([i \in 1..Max(Len(x.value), Len(y.value)) |->
                        << IF Len(x.value) = 1 THEN x.value[1] ELSE x.value[i],
                           IF Len(y.value) = 1 THEN y.value[1] ELSE y.value[i] >>])

\* x - y of two arrays
Minus(x, y) ==
    LET pairs == Broadcast(x, y)
    IN  IF pairs.raised THEN ValueError
        ELSE Array([i \in 1..Len(pairs.value) |-> pairs.value[i][1] - pairs.value[i][2]])

\* x[0:time_step + 1]
Head0(x, time_step) == SubSeq(x, 1, Min(time_step + 1, Len(x)))

\* HeatPump.get_input_power of an array of output powers and an array of outdoor
\* temperatures
HeatPumpInputPowers(device, output_power, temperature, heating) ==
    LET pairs == Broadcast(output_power, temperature)
    IN  IF pairs.raised THEN ValueError
        ELSE Array([i \in 1..Len(pairs.value) |->
                       HeatPumpInputPower(device, pairs.value[i][1], pairs.value[i][2],
                                          heating)])

\* cooling_storage_electricity_consumption
cooling_storage_electricity_consumption(b) ==
    HeatPumpInputPowers(b.cooling_device, Array(b.cooling_storage.energy_balance),
        Array(Head0(b.weather.outdoor_dry_bulb_temperature, b.time_step)), FALSE)

\* get_input_power of a heating or DHW device for the energy balance of its storage
StorageElectricityConsumption(b, device, storage) ==
    IF IsHeatPump(device)
    THEN HeatPumpInputPowers(device, Array(storage.energy_balance),
             Array(Head0(b.weather.outdoor_dry_bulb_temperature, b.time_step)), TRUE)
    ELSE Array([i \in 1..Len(storage.energy_balance) |->
                   HeaterInputPower(device, storage.energy_balance[i])])

\* heating_storage_electricity_consumption
heating_storage_electricity_consumption(b) ==
    StorageElectricityConsumption(b, b.heating_device, b.heating_storage)

\* dhw_storage_electricity_consumption
dhw_storage_electricity_consumption(b) ==
    StorageElectricityConsumption(b, b.dhw_device, b.dhw_storage)

\* electrical_storage_electricity_consumption
electrical_storage_electricity_consumption(b) ==
    Array(b.electrical_storage.electricity_consumption)

\* np.sum([...], axis = 0) of arrays: rows of different lengths raise ValueError
SumRows(x, y) ==
    IF x.raised \/ y.raised \/ Len(x.value) # Len(y.value) THEN ValueError
    ELSE Array([i \in 1..Len(x.value) |-> x.value[i] + y.value[i]])

\* a fault: the electrical storage is left out of the sum
StorageConsumptionSumThermal(b) ==
    SumRows(SumRows(cooling_storage_electricity_consumption(b),
                    heating_storage_electricity_consumption(b)),
            dhw_storage_electricity_consumption(b))

\* the np.sum of net_electricity_consumption_without_storage
StorageConsumptionSum(b) ==
    SumRows(SumRows(SumRows(cooling_storage_electricity_consumption(b),
                            heating_storage_electricity_consumption(b)),
                    dhw_storage_electricity_consumption(b)),
            electrical_storage_electricity_consumption(b))

\* net_electricity_consumption_without_storage
net_electricity_consumption_without_storage(b) ==
    Minus(Array(b.net_electricity_consumption), StorageConsumptionSum(b))

\* the solar_generation property: self.__solar_generation[:time_step + 1]
solar_generation(b) == Head0(b.solar_generation, b.time_step)

\* net_electricity_consumption_without_storage_and_pv
net_electricity_consumption_without_storage_and_pv(b) ==
    Minus(net_electricity_consumption_without_storage(b), Array(solar_generation(b)))

\* (carbon_intensity[0:time_step + 1]*series).clip(min=0)
EmissionOf(b, series) ==
    LET pairs == Broadcast(Array(Head0(b.carbon_intensity.carbon_intensity, b.time_step)),
                           series)
    IN  IF pairs.raised THEN ValueError
        ELSE Array([i \in 1..Len(pairs.value) |->
                       Max(0, pairs.value[i][1] * pairs.value[i][2])])

\* net_electricity_consumption_without_storage_emission
net_electricity_consumption_without_storage_emission(b) ==
    EmissionOf(b, net_electricity_consumption_without_storage(b))

\* net_electricity_consumption_without_storage_and_pv_emission
net_electricity_consumption_without_storage_and_pv_emission(b) ==
    EmissionOf(b, net_electricity_consumption_without_storage_and_pv(b))

\* the storage series the derived series are computed from
StorageSeries(b) ==
    << b.cooling_storage.energy_balance, b.heating_storage.energy_balance,
       b.dhw_storage.energy_balance, b.electrical_storage.electricity_consumption >>

\* the electricity the four storages take at index i
StorageConsumptionAt(b, i) ==
    InputPower(b.cooling_device, b.cooling_storage.energy_balance[i],
               b.weather.outdoor_dry_bulb_temperature[i], FALSE)
        + InputPower(b.heating_device, b.heating_storage.energy_balance[i],
                     b.weather.outdoor_dry_bulb_temperature[i], TRUE)
        + InputPower(b.dhw_device, b.dhw_storage.energy_balance[i],
                     b.weather.outdoor_dry_bulb_temperature[i], TRUE)
        + b.electrical_storage.electricity_consumption[i]

\* a time step has begun: its ledger entries are appended and its actions are
\* not yet applied
AtStep == last.op \in {"reset", "next_time_step"}

----------------------------------------------------------------------------
(* The thermal storage updates under an action of 0. *)

\* the energy C28 gives for an action of 0: none while the device can cover the
\* space demand, and the device's shortfall, as a discharge, when it cannot
ZeroActionEnergy(space_demand, max_output) ==
    IF space_demand <= max_output THEN 0 ELSE max_output - space_demand

\* the action of apply_actions for the storage of an end use
StorageActionOf(actions, end_use) ==
    CASE end_use = "cooling" -> actions.cooling_storage
      [] end_use = "heating" -> actions.heating_storage
      [] end_use = "dhw" -> actions.dhw_storage

\* C28: with an action of 0 a thermal storage update passes charge the energy 0
\* where 0 <= space_demand <= max_output, and the negative energy
\* max_output - space_demand where space_demand > max_output; this in every state
\* after the first reset, and for the energies the last apply_actions passed
C28_ZeroActionEnergy ==
    Running =>
        \A end_use \in EndUses :
            LET space_demand == SpaceDemand(bld, end_use)
                max_output == MaxOutput(bld, end_use)
            IN  /\ StorageEnergy(bld, end_use, 0) = ZeroActionEnergy(space_demand, max_output)
                /\ space_demand > max_output => StorageEnergy(bld, end_use, 0) < 0
                /\ (last.op = "apply_actions"
                        /\ ActionOrDefault(StorageActionOf(last.actions, end_use)) = 0) =>
                       last.charged[end_use] = ZeroActionEnergy(space_demand, max_output)

\* C28: apply_actions was called with a DHW storage action of 0 at a time step
\* whose DHW demand is above the DHW device's maximum output, and the charged DHW
\* storage lost energy
C28_Witness ==
    /\ last.op = "apply_actions"
    /\ last.actions.dhw_storage = Some(0)
    /\ SpaceDemand(bld, "dhw") > MaxOutput(bld, "dhw")
    /\ MaxOutput(bld, "dhw") > 0
    /\ last.charged.dhw = MaxOutput(bld, "dhw") - SpaceDemand(bld, "dhw")
    /\ Last(bld.dhw_storage.energy_balance) < 0

----------------------------------------------------------------------------
(* The heating COP observation. *)

\* C29: when the heating device is a heat pump, the heating_device_cop observation
\* is the COP of the heating device at the outdoor temperature of the time step,
\* in heating mode, and lies within the bound the observation space has for it
C29_HeatingCopOfHeatingDevice ==
    (Running /\ IsHeatPump(bld.heating_device)) =>
        LET ix == IndexOf(bld.active_observations, "heating_device_cop")
            cop == ObservationValue(bld, "heating_device_cop")
        IN  /\ cop = get_cop(bld.heating_device, OutdoorTemperature(bld), TRUE)
            /\ bld.observation_space.low[ix] <= cop
            /\ cop <= bld.observation_space.high[ix]

----------------------------------------------------------------------------
(* The replay of an episode. *)

\* a time step of an episode: the driver applies actions and advances the time
StepOf(b, actions) == next_time_step(apply_actions(b, actions))

\* the building at each time step of an episode that starts at b and takes one
\* step for each action vector of a sequence
RECURSIVE Episode(_, _)
Episode(b, sequence) ==
    IF sequence = <<>> THEN <<b>>
    ELSE <<b>> \o Episode(StepOf(b, Head(sequence)), Tail(sequence))

\* the sequences of action vectors of an episode over the whole horizon
ActionSequences == [1..(Horizon - 1) -> ActionVectors]

\* what an episode shows at a time step
Shown(b) ==
    [ledgers |-> Ledgers(b), storages |-> StorageState(b),
     observations |-> ObservationsOrRaise(b)]

\* C30: for a building at the start of its first episode and every sequence of
\* actions, the episode that follows a reset at the end of the first episode and
\* takes the same actions shows at every time step the ledgers, the storages'
\* series and the observations the first episode showed there
C30_EpisodesRepeatable ==
    (last.op = "reset" /\ last.steps = 0) =>
        \A sequence \in ActionSequences :
            LET first == Episode(bld, sequence)
                second == Episode(reset(Last(first)), sequence)
            IN  \A k \in 1..Len(first) : Shown(second[k]) = Shown(first[k])

====
